---- MODULE Spec2Model ----
(***************************************************************************)
(* The fact evaluation engine of compass-compute: EvaluateMetric and the   *)
(* processors, helpers and coercions it calls, and Process, which clones   *)
(* a component's repositories and evaluates and submits its metrics.       *)
(*                                                                         *)
(* Text that the code rewrites or parses (repo, filePath, uri, jsonPath,   *)
(* file contents, results) is a sequence of one-character strings; text    *)
(* that the code only compares (id, type, source, rule, method, pattern)   *)
(* is a TLA+ string.                                                       *)
(***************************************************************************)
EXTENDS Integers, Sequences, FiniteSets, TLC

VARIABLES
    facts,          \* the caller's slice of services.Fact (one backing array)
    orig,           \* the list as the caller built it (history)
    env,            \* process environment read by NewPrometheusClient
    pc,             \* position inside / outside EvaluateMetric
    idx,            \* loop variable i of the scan loop
    progress,       \* local variable progress
    pass,           \* number of the current scan pass (history)
    componentName,  \* argument componentName of the current call
    calls,          \* number of EvaluateMetric calls made on this list
    ret,            \* what the last call returned: [val, err]
    trace,          \* calls and processor events, in order (history)
    reads,          \* Result fields read by consumers (history)
    extracts,       \* what each extractFromSource call did and returned (history)
    arg,            \* the argument of a function applied on its own
    applied,        \* the function that was applied to arg, "none" before
    result,         \* what that function returned
    cancelled,      \* the caller's cancellation signal has fired
    proc,           \* a run of Process: position, locals, and the other run beside it
    tree,           \* the repositories present below LocalBasePath
    getComponentResponse,  \* the package-level variable GetComponent decodes into
    all             \* a run of ProcessAll: position, arguments, and what it did (history)

\* the variables of EvaluateMetric
inner == <<facts, orig, env, pc, idx, progress, pass, componentName, calls, ret, trace, reads,
           extracts>>

\* the variables outside EvaluateMetric
outer == <<arg, applied, result, cancelled, proc, tree, getComponentResponse, all>>

vars == <<facts, orig, env, pc, idx, progress, pass, componentName, calls, ret, trace, reads,
          extracts, arg, applied, result, cancelled, proc,
          tree, getComponentResponse, all>>

-----------------------------------------------------------------------------
(* Bounds of the model *)

MaxFacts == 3

MaxCalls == 2

-----------------------------------------------------------------------------
(* Text *)

Token == <<"$", "{", "M", "e", "t", "a", "d", "a", "t", "a", ".", "N", "a", "m", "e", "}">>

Svc == <<"s", "v", "c">>

Web == <<"w", "e", "b">>

Readme == <<"R", "E", "A", "D", "M", "E">>

Missing == <<"n", "o", "n", "e">>

Count == <<"c", "n", "t">>

Empty == <<"e", "m", "p", "t", "y">>

Hello == <<"h", "e", "l", "l", "o">>

Digits == <<"0", "1", "2", "3", "4", "5", "6", "7", "8", "9">>

IsDigit(c) == \E d \in 1..10 : Digits[d] = c

DigitVal(c) == (CHOOSE d \in 1..10 : Digits[d] = c) - 1

HasPrefixAt(s, p, k) ==
    /\ k + Len(p) - 1 <= Len(s)
    /\ \A j \in 1..Len(p) : s[k + j - 1] = p[j]

\* strings.Contains
Contains(s, p) == \E k \in 1..(Len(s) + 1) : HasPrefixAt(s, p, k)

\* the characters a group name of a replacement template is made of: letters,
\* digits and "_", that is, none of the punctuation the model's texts use
IsNameChar(c) ==
    c \notin {"$", "{", "}", ".", "/", ":", "-", " ", "[", "]", "<", ">", ",", "=", "\""}

\* the index after the run of name characters that starts at k
RECURSIVE NameEnd(_, _)
NameEnd(t, k) == IF k <= Len(t) /\ IsNameChar(t[k]) THEN NameEnd(t, k + 1) ELSE k

\* regexp Expand of the replacement template t for the match m of a pattern
\* without groups: $$ is "$", $0 and ${0} are the match, any other $name or
\* ${name} is empty, and a "$" that starts no name stays as it is
RECURSIVE Expand(_, _, _)
Expand(t, m, k) ==
    IF k > Len(t) THEN <<>>
    ELSE IF t[k] # "$" THEN <<t[k]>> \o Expand(t, m, k + 1)
    ELSE IF k < Len(t) /\ t[k + 1] = "$" THEN <<"$">> \o Expand(t, m, k + 2)
    ELSE LET brace == k < Len(t) /\ t[k + 1] = "{"
             start == IF brace THEN k + 2 ELSE k + 1
             end == NameEnd(t, start)
             ok == end > start /\ (brace => (end <= Len(t) /\ t[end] = "}"))
         IN  IF ~ok THEN <<"$">> \o Expand(t, m, k + 1)
             ELSE (IF SubSeq(t, start, end - 1) = <<"0">> THEN m ELSE <<>>)
                  \o Expand(t, m, IF brace THEN end + 1 ELSE end)

RECURSIVE ReplaceFromMutant(_, _, _, _)
ReplaceFromMutant(s, p, r, k) ==
    IF k > Len(s) THEN <<>>
    ELSE IF HasPrefixAt(s, p, k) THEN r \o p \o ReplaceFromMutant(s, p, r, k + Len(p))
    ELSE <<s[k]>> \o ReplaceFromMutant(s, p, r, k + 1)

\* regexp ReplaceAllString for the literal pattern \$\{Metadata\.Name\}: leftmost,
\* non-overlapping matches are replaced by r, and the replacement is not scanned
\* again
RECURSIVE ReplaceFrom(_, _, _, _)
ReplaceFrom(s, p, r, k) ==
    IF k > Len(s) THEN <<>>
    ELSE IF HasPrefixAt(s, p, k) THEN r \o ReplaceFrom(s, p, r, k + Len(p))
    ELSE <<s[k]>> \o ReplaceFrom(s, p, r, k + 1)

\* the replacement is the template r expanded for the match
ReplaceAllString(s, r) == ReplaceFrom(s, Token, Expand(r, Token, 1), 1)

\* strings.ToLower on the spellings the model uses
ToLower(s) ==
    CASE s = "Extract" -> "extract"
      [] s = "Validate" -> "validate"
      [] s = "Aggregate" -> "aggregate"
      [] s = "GitHub" -> "github"
      [] s = "NotEmpty" -> "notempty"
      [] s = "COUNT" -> "count"
      [] s = "Search" -> "search"
      [] OTHER -> s

-----------------------------------------------------------------------------
(* Values of type interface{}: one record shape, discriminated by t *)

NilV == [t |-> "nil", b |-> FALSE, n |-> 0, s |-> <<>>, l |-> <<>>]

BoolV(x) == [t |-> "bool", b |-> x, n |-> 0, s |-> <<>>, l |-> <<>>]

\* float64; the model's numbers are whole
NumV(x) == [t |-> "float64", b |-> FALSE, n |-> x, s |-> <<>>, l |-> <<>>]

\* int, int64 and float32, the other numeric types the coercions switch on
IntV(x) == [t |-> "int", b |-> FALSE, n |-> x, s |-> <<>>, l |-> <<>>]

Int64V(x) == [t |-> "int64", b |-> FALSE, n |-> x, s |-> <<>>, l |-> <<>>]

Float32V(x) == [t |-> "float32", b |-> FALSE, n |-> x, s |-> <<>>, l |-> <<>>]

StrV(x) == [t |-> "string", b |-> FALSE, n |-> 0, s |-> x, l |-> <<>>]

\* []interface{}
ListV(x) == [t |-> "list", b |-> FALSE, n |-> 0, s |-> <<>>, l |-> x]

\* []bool, as validateRegex stores it
BoolsV(x) == [t |-> "bools", b |-> FALSE, n |-> 0, s |-> <<>>, l |-> x]

\* map[string]interface{}: the empty map, and the map whose one key
\* "recipients" holds the values l
MapV == [t |-> "map", b |-> FALSE, n |-> 0, s |-> <<>>, l |-> <<>>]

RecipientsV(x) == [t |-> "map", b |-> FALSE, n |-> 0, s |-> <<>>, l |-> <<x>>]

\* the absent signal of the coercions (a nil pointer)
Absent == [ok |-> FALSE, n |-> 0, b |-> FALSE]

\* []byte: nil, or a (possibly empty) byte string
NilBytes == [nil |-> TRUE, bytes |-> <<>>]

Bytes(x) == [nil |-> FALSE, bytes |-> x]

\* error values: nil, or a kind with the fact id it names and its cause
NoErr == [kind |-> "nil", id |-> "", cause |-> ""]

ErrMutant(k, i, c) == [kind |-> k, id |-> "", cause |-> c]

Err(k, i, c) == [kind |-> k, id |-> i, cause |-> c]

\* the text each error kind is formatted with
ErrText(e) ==
    CASE e.kind = "nofacts" -> "no facts provided"
      [] e.kind = "process" -> "failed to process fact %s: %w"
      [] e.kind = "circular" -> "circular dependency or unresolved dependencies detected"
      [] OTHER -> ""

-----------------------------------------------------------------------------
(* Type coercion *)

RECURSIVE DigitsToNat(_)
DigitsToNat(s) ==
    IF Len(s) = 0 THEN 0
    ELSE 10 * DigitsToNat(SubSeq(s, 1, Len(s) - 1)) + DigitVal(s[Len(s)])

\* strconv.ParseFloat on the model's texts: letters other than digits never form
\* a number here (no sign, exponent, hex, inf or nan spelling is in the model)
ParseFloat(s) ==
    IF Len(s) > 0 /\ \A k \in 1..Len(s) : IsDigit(s[k])
    THEN [ok |-> TRUE, n |-> DigitsToNat(s), b |-> FALSE]
    ELSE Absent

ConvertToFloat64Mutant(v) ==
    CASE v.t \in {"float64", "float32", "int", "int64"} -> [ok |-> TRUE, n |-> v.n, b |-> FALSE]
      [] v.t = "string" -> ParseFloat(v.s)
      [] OTHER -> Absent

convertToFloat64(v) ==
    CASE v.t \in {"float64", "float32", "int", "int64"} -> [ok |-> TRUE, n |-> v.n, b |-> FALSE]
      [] v.t = "string" -> ParseFloat(v.s)
      [] v.t = "bool" -> [ok |-> TRUE, n |-> IF v.b THEN 1 ELSE 0, b |-> FALSE]
      [] OTHER -> Absent

True == <<"t", "r", "u", "e">>

False == <<"f", "a", "l", "s", "e">>

\* strconv.ParseBool accepts 1, t, T, TRUE, true, True, 0, f, F, FALSE, false, False
ParseBool(s) ==
    IF s \in {<<"1">>, <<"t">>, <<"T">>, <<"T", "R", "U", "E">>, True, <<"T", "r", "u", "e">>}
    THEN [ok |-> TRUE, n |-> 0, b |-> TRUE]
    ELSE IF s \in {<<"0">>, <<"f">>, <<"F">>, <<"F", "A", "L", "S", "E">>, False,
                   <<"F", "a", "l", "s", "e">>}
    THEN [ok |-> TRUE, n |-> 0, b |-> FALSE]
    ELSE Absent

convertToBool(v) ==
    CASE v.t = "bool" -> [ok |-> TRUE, n |-> 0, b |-> v.b]
      [] v.t = "string" -> ParseBool(v.s)
      [] v.t \in {"float64", "int"} -> [ok |-> TRUE, n |-> 0, b |-> v.n # 0]
      [] OTHER -> Absent

-----------------------------------------------------------------------------
(* Placeholder and dependency helpers *)

replacePlaceholders(fact, name) ==
    [fact EXCEPT
        !.Repo = ReplaceAllString(fact.Repo, name),
        !.FilePath = ReplaceAllString(fact.FilePath, name),
        !.URI = ReplaceAllString(fact.URI, name),
        !.PrometheusQuery = ReplaceAllString(fact.PrometheusQuery, name),
        !.JSONPath = IF fact.JSONPath.t = "string"
                     THEN StrV(ReplaceAllString(fact.JSONPath.s, name))
                     ELSE fact.JSONPath]

\* the ids that factMap holds
FactIds(fs) == {fs[k].ID : k \in 1..Len(fs)}

\* factMap[id] = &facts[i]: the last fact of that id, as an index into the slice
FactMap(fs, id) == CHOOSE k \in 1..Len(fs) : fs[k].ID = id /\ \A j \in (k + 1)..Len(fs) : fs[j].ID # id

DepSatisfied(fs, depID) == depID \in FactIds(fs) /\ fs[FactMap(fs, depID)].Done

AreDependenciesSatisfiedNoDone(fact, fs) ==
    \A k \in 1..Len(fact.DependsOn) : fact.DependsOn[k] \in FactIds(fs)

AreDependenciesSatisfiedAlways(fact, fs) == TRUE

AreDependenciesSatisfiedMutant(fact, fs) ==
    \A k \in 1..Len(fact.DependsOn) :
        fact.DependsOn[k] \in FactIds(fs) => fs[FactMap(fs, fact.DependsOn[k])].Done

areDependenciesSatisfied(fact, fs) ==
    \A k \in 1..Len(fact.DependsOn) : DepSatisfied(fs, fact.DependsOn[k])

\* a dependency whose Result is nil is left out
RECURSIVE DependencyReadsMutant(_, _)
DependencyReadsMutant(deps, fs) ==
    IF Len(deps) = 0 THEN <<>>
    ELSE (IF DepSatisfied(fs, deps[1]) /\ fs[FactMap(fs, deps[1])].Result # NilV
          THEN <<FactMap(fs, deps[1])>> ELSE <<>>)
         \o DependencyReadsMutant(Tail(deps), fs)

\* the facts whose Result getDependencyResults reads, in dependsOn order
RECURSIVE DependencyReads(_, _)
DependencyReads(deps, fs) ==
    IF Len(deps) = 0 THEN <<>>
    ELSE (IF DepSatisfied(fs, deps[1]) THEN <<FactMap(fs, deps[1])>> ELSE <<>>)
         \o DependencyReads(Tail(deps), fs)

getDependencyResults(fact, fs) ==
    LET r == DependencyReads(fact.DependsOn, fs)
    IN  [k \in 1..Len(r) |-> fs[r[k]].Result]

-----------------------------------------------------------------------------
(* The working tree under ./repos and the outside world *)

Null == <<"n", "u", "l", "l">>

EmptyArray == <<"[", "]">>

OneTwo == <<"[", "1", ",", "2", "]">>

Seven == <<"[", "7", "]">>

EmptyObject == <<"{", "}">>

EmptyRecipients == <<"{", "r", "e", "c", "i", "p", "i", "e", "n", "t", "s", ":", "[", "]", "}">>

Recipients == <<"r", "e", "c", "i", "p", "i", "e", "n", "t", "s">>

SloId == <<":", "s", "l", "o", "_", "i", "d">>

AlertId == <<":", "a", "l", "e", "r", "t", "_", "i", "d">>

Dot == <<".">>

Iterate == <<".", "[", "]">>

Blob == <<"a", ".", "b", "i", "n">>

GitHead == <<".", "g", "i", "t", "/", "H", "E", "A", "D">>

Ref == <<"r", "e", "f">>

Key == <<"k", "e", "y">>

File(repo, path, ext, content) ==
    [repo |-> repo, path |-> path, ext |-> ext, under |-> "", readable |-> TRUE, content |-> content]

\* the regular files of the tree: repo, path, extension of the file name,
\* extension of the directory that holds it ("" at the repository root),
\* whether the process may read it, content
Files ==
    { File(Svc, Readme, "", Hello),
      File(Svc, Count, "", <<"4", "2">>),
      File(Svc, Empty, "", <<>>),
      File(Svc, OneTwo, "", OneTwo),
      File(Svc, Blob, ".bin", Token),
      [File(Svc, GitHead, "", Ref) EXCEPT !.under = ".git"],
      File(Web, Count, "", <<"7">>),
      [File(Web, Key, "", Key) EXCEPT !.readable = FALSE] }

\* the directories below a repository root
Dirs == { [repo |-> Svc, path |-> <<"s", "r", "c">>] }

Repos == {f.repo : f \in Files}

\* services.CatalogRepo
CatalogRepo == <<"o", "f", "-", "c", "a", "t", "a", "l", "o", "g">>

\* every directory that Clone puts below LocalBasePath
AllRepos == Repos \cup {CatalogRepo}

\* os.ReadFile(<repoRoot>/<repo>/<path>)
ReadFile(repo, path) ==
    IF repo \notin tree THEN [st |-> "notexist", data |-> NilBytes]
    ELSE IF \E f \in Files : f.repo = repo /\ f.path = path /\ f.readable
    THEN [st |-> "ok", data |-> Bytes((CHOOSE f \in Files : f.repo = repo /\ f.path = path).content)]
    ELSE IF \E f \in Files : f.repo = repo /\ f.path = path THEN [st |-> "error", data |-> NilBytes]
    ELSE IF \E d \in Dirs : d.repo = repo /\ d.path = path THEN [st |-> "error", data |-> NilBytes]
    ELSE [st |-> "notexist", data |-> NilBytes]

\* what one HTTP or monitoring request can end with
Outcomes ==
    { [ok |-> FALSE, body |-> <<>>, value |-> 0],
      [ok |-> TRUE, body |-> <<"4", "2">>, value |-> 3] }

-----------------------------------------------------------------------------
(* Formatting and parsing *)

RECURSIVE NatToStr(_)
NatToStr(n) ==
    IF n < 10 THEN <<Digits[n + 1]>>
    ELSE NatToStr(n \div 10) \o <<Digits[(n % 10) + 1]>>

\* json.Marshal of a bool or of a whole float64
MarshalBool(b) == IF b THEN True ELSE False

\* fmt.Sprintf("%v", v)
RECURSIVE Sprint(_)
RECURSIVE SprintAll(_)
SprintAll(l) ==
    IF Len(l) = 0 THEN <<>>
    ELSE IF Len(l) = 1 THEN Sprint(l[1])
    ELSE Sprint(l[1]) \o <<" ">> \o SprintAll(Tail(l))

Sprint(v) ==
    CASE v.t = "nil" -> <<"<", "n", "i", "l", ">">>
      [] v.t = "bool" -> MarshalBool(v.b)
      [] v.t \in {"float64", "float32", "int", "int64"} -> NatToStr(v.n)
      [] v.t = "string" -> v.s
      [] v.t = "map" ->
            <<"m", "a", "p", "[">>
            \o (IF Len(v.l) = 0 THEN <<>> ELSE Recipients \o <<":">> \o Sprint(v.l[1]))
            \o <<"]">>
      [] OTHER -> <<"[">> \o SprintAll(v.l) \o <<"]">>

\* json.Unmarshal(data, &jsonData) on the documents of the model
JSONUnmarshal(data) ==
    CASE data = Null -> [ok |-> TRUE, v |-> NilV]
      [] data = True -> [ok |-> TRUE, v |-> BoolV(TRUE)]
      [] data = False -> [ok |-> TRUE, v |-> BoolV(FALSE)]
      [] data = EmptyArray -> [ok |-> TRUE, v |-> ListV(<<>>)]
      [] data = OneTwo -> [ok |-> TRUE, v |-> ListV(<<NumV(1), NumV(2)>>)]
      [] data = Seven -> [ok |-> TRUE, v |-> ListV(<<NumV(7)>>)]
      [] data = EmptyRecipients -> [ok |-> TRUE, v |-> RecipientsV(ListV(<<>>))]
      [] data = EmptyObject -> [ok |-> TRUE, v |-> MapV]
      [] ParseFloat(data).ok -> [ok |-> TRUE, v |-> NumV(ParseFloat(data).n)]
      [] OTHER -> [ok |-> FALSE, v |-> NilV]

\* gojq.Parse(q) and query.Run(v) for the queries "." and ".[]": the values
\* produced, or an error
RunQuery(q, v) ==
    CASE q = Dot -> [st |-> "ok", out |-> <<v>>]
      [] q = Iterate /\ v.t = "list" -> [st |-> "ok", out |-> v.l]
      [] q = Iterate /\ v.t = "map" -> [st |-> "ok", out |-> v.l]
      [] q = Iterate -> [st |-> "queryerror", out |-> <<>>]
      [] OTHER -> [st |-> "parseerror", out |-> <<>>]

\* regexp.Compile on the patterns of the model
RegexCompiles(p) == p \in {"", "^[0-9]+$", "h"}

\* regex.MatchString
MatchString(p, s) ==
    CASE p = "" -> TRUE
      [] p = "h" -> Contains(s, <<"h">>)
      [] OTHER -> ParseFloat(s).ok

-----------------------------------------------------------------------------
(* Source extractors: each returns [err, data], err = "" for a nil error *)

Got(d) == [err |-> "", data |-> d]

Failed(e) == [err |-> e, data |-> NilBytes]

\* filepath.Walk over the repository: a missing root is an error; the walk
\* function returns nil for every directory, whatever its name, so Walk
\* descends into it; files whose own extension is .git, .bin or .exe and
\* files that cannot be read are passed over
searchInRepo(repo, searchString) ==
    IF repo \notin Repos \/ repo \notin tree THEN Failed("walk")
    ELSE Got(Bytes(MarshalBool(
            \E f \in Files : /\ f.repo = repo
                             /\ f.ext \notin {".git", ".bin", ".exe"}
                             /\ f.readable
                             /\ Contains(f.content, searchString))))

\* no file of the model's tree ends in .toml; a TOML document without a
\* key = value line flattens to the empty JSON object
convertTOMLToJSON(data) == Got(Bytes(EmptyObject))

HasSuffix(s, p) == Len(p) <= Len(s) /\ HasPrefixAt(s, p, Len(s) - Len(p) + 1)

extractFromGitHub(fact) ==
    IF fact.Rule = "search" THEN
        LET r == searchInRepo(fact.Repo, fact.SearchString)
        IN  IF r.err # "" THEN Failed("failed to search in repository") ELSE r
    ELSE IF fact.FilePath = <<>> THEN Failed("filePath is required for GitHub source")
    ELSE IF fact.FilePath = Dot THEN Failed("invalid file path")
    ELSE LET f == ReadFile(fact.Repo, fact.FilePath)
         IN  IF f.st = "notexist" THEN Got(NilBytes)
             ELSE IF f.st = "error" THEN Failed("read")
             ELSE IF HasSuffix(fact.FilePath, <<".", "t", "o", "m", "l">>)
             THEN convertTOMLToJSON(f.data)
             ELSE Got(f.data)

ReplaceAll(s, p, r) == ReplaceFrom(s, p, r, 1)

\* the loop of substituteDependencyValues over the dependency results; the
\* result <<>> is the empty URI that tells the caller to skip the request
\* an empty array is passed over like any other value
RECURSIVE SubstituteLoopMutant(_, _)
SubstituteLoopMutant(uri, deps) ==
    IF Len(deps) = 0 THEN uri
    ELSE LET dep == deps[1]
             sub(x) == ReplaceAll(ReplaceAll(uri, SloId, x), AlertId, x)
         IN  IF dep.t = "string" THEN SubstituteLoopMutant(sub(dep.s), Tail(deps))
             ELSE IF dep.t = "list" /\ Len(dep.l) > 0 /\ dep.l[1].t = "string"
             THEN SubstituteLoopMutant(sub(dep.l[1].s), Tail(deps))
             ELSE SubstituteLoopMutant(uri, Tail(deps))

RECURSIVE SubstituteLoop(_, _)
SubstituteLoop(uri, deps) ==
    IF Len(deps) = 0 THEN uri
    ELSE LET dep == deps[1]
             sub(x) == ReplaceAll(ReplaceAll(uri, SloId, x), AlertId, x)
         IN  IF dep.t = "string" THEN SubstituteLoop(sub(dep.s), Tail(deps))
             ELSE IF dep.t = "list" /\ Len(dep.l) = 0 THEN <<>>
             ELSE IF dep.t = "list" /\ dep.l[1].t = "string"
             THEN SubstituteLoop(sub(dep.l[1].s), Tail(deps))
             ELSE SubstituteLoop(uri, Tail(deps))

substituteDependencyValues(fact, fs) ==
    LET deps == getDependencyResults(fact, fs)
    IN  IF Len(fact.DependsOn) = 0 THEN fact.URI
        ELSE IF Len(deps) = 0 THEN <<>>
        ELSE SubstituteLoop(fact.URI, deps)

\* out is what the GET ends with, when one is issued
extractFromAPI(fact, fs, out) ==
    LET uri == substituteDependencyValues(fact, fs)
    IN  IF uri = <<>> THEN
            IF Contains(fact.URI, Recipients) \/ Contains(fact.URI, AlertId)
            THEN Got(Bytes(EmptyRecipients))
            ELSE Got(Bytes(EmptyArray))
        ELSE IF out.ok THEN Got(Bytes(out.body))
        ELSE Failed("http")

\* NewFactEvaluator always stores a service, so the nil test never fires here;
\* out is what the instant or range query ends with
extractFromPrometheus(fact, out) ==
    IF fact.PrometheusQuery = <<>> THEN Failed("no query specified for prometheus source")
    ELSE IF fact.Rule = "range" THEN
        IF out.ok THEN Got(Bytes(out.body)) ELSE Failed("prometheus range query failed")
    ELSE IF fact.Rule \in {"instant", ""} THEN
        IF out.ok THEN Got(Bytes(NatToStr(out.value))) ELSE Failed("prometheus instant query failed")
    ELSE Failed("unsupported prometheus rule")

extractCustom(fact) == Failed("unsupported source")

extractFromSource(fact, fs, out) ==
    CASE ToLower(fact.Source) = "github" -> extractFromGitHub(fact)
      [] ToLower(fact.Source) \in {"jsonapi", "api"} -> extractFromAPI(fact, fs, out)
      [] ToLower(fact.Source) = "prometheus" -> extractFromPrometheus(fact, out)
      [] OTHER -> extractCustom(fact)

\* whether processing the fact waits for the outside world
IssuesRequest(fact, fs) ==
    /\ ToLower(fact.Type) = "extract"
    /\ \/ ToLower(fact.Source) \in {"jsonapi", "api"} /\ substituteDependencyValues(fact, fs) # <<>>
       \/ /\ ToLower(fact.Source) = "prometheus"
          /\ fact.PrometheusQuery # <<>>
          /\ fact.Rule \in {"range", "instant", ""}

-----------------------------------------------------------------------------
(* Rule applier: returns [err, v] *)

Value(v) == [err |-> "", v |-> v]

NoValue(e) == [err |-> e, v |-> NilV]

\* return results, without the len(results) == 1 test
ApplyJSONPathMutant(jsonPath, data) ==
    IF Len(data.bytes) = 0 THEN Value(ListV(<<>>))
    ELSE IF jsonPath.t = "nil" THEN NoValue("jsonPath is required but not provided")
    ELSE IF jsonPath.t # "string" THEN NoValue("jsonPath must be a string")
    ELSE IF jsonPath.s = <<>> THEN NoValue("jsonPath cannot be empty")
    ELSE IF RunQuery(jsonPath.s, NilV).st = "parseerror" THEN NoValue("failed to parse jsonPath")
    ELSE LET doc == JSONUnmarshal(data.bytes)
             run == RunQuery(jsonPath.s, doc.v)
         IN  IF ~doc.ok THEN NoValue("failed to unmarshal JSON data")
             ELSE IF doc.v.t = "nil" THEN Value(ListV(<<>>))
             ELSE IF run.st # "ok" THEN NoValue("jsonPath query error")
             ELSE Value(ListV(run.out))

applyJSONPath(jsonPath, data) ==
    IF Len(data.bytes) = 0 THEN Value(ListV(<<>>))
    ELSE IF jsonPath.t = "nil" THEN NoValue("jsonPath is required but not provided")
    ELSE IF jsonPath.t # "string" THEN NoValue("jsonPath must be a string")
    ELSE IF jsonPath.s = <<>> THEN NoValue("jsonPath cannot be empty")
    ELSE IF RunQuery(jsonPath.s, NilV).st = "parseerror" THEN NoValue("failed to parse jsonPath")
    ELSE LET doc == JSONUnmarshal(data.bytes)
             run == RunQuery(jsonPath.s, doc.v)
         IN  IF ~doc.ok THEN NoValue("failed to unmarshal JSON data")
             ELSE IF doc.v.t = "nil" THEN Value(ListV(<<>>))
             ELSE IF run.st # "ok" THEN NoValue("jsonPath query error")
             ELSE IF Len(run.out) = 1 THEN Value(run.out[1])
             ELSE Value(ListV(run.out))

applyCustomRule(fact, data) == Value(StrV(data.bytes))

applyRule(fact, data) ==
    CASE ToLower(fact.Rule) = "jsonpath" -> applyJSONPath(fact.JSONPath, data)
      [] ToLower(fact.Rule) = "notempty" -> Value(BoolV(Len(data.bytes) > 0))
      [] ToLower(fact.Rule) = "search" ->
            LET doc == JSONUnmarshal(data.bytes)
            IN  IF doc.ok /\ doc.v.t = "bool" THEN Value(doc.v)
                ELSE IF doc.ok /\ doc.v.t = "nil" THEN Value(BoolV(FALSE))
                ELSE NoValue("failed to unmarshal search result")
      [] OTHER -> applyCustomRule(fact, data)

-----------------------------------------------------------------------------
(* Fact processors: each returns [err, fact]; the fact is the one the pointer *)
(* refers to, with Result stored on the paths that store it                  *)

Stored(fact, v) == [err |-> "", fact |-> [fact EXCEPT !.Result = v]]

Refused(fact, e) == [err |-> e, fact |-> fact]

processExtract(fact, fs, out) ==
    IF fact.Source = "" THEN Refused(fact, "source is required for extract fact type")
    ELSE LET x == extractFromSource(fact, fs, out)
         IN  IF x.err # "" THEN Refused(fact, "extraction failed from source")
             ELSE IF fact.Rule # "" THEN
                 LET r == applyRule(fact, x.data)
                 IN  IF r.err # "" THEN Refused(fact, "rule application failed")
                     ELSE Stored(fact, r.v)
             ELSE IF x.data.nil THEN Stored(fact, NilV)
             ELSE Stored(fact, StrV(x.data.bytes))

validateRegex(fact, deps) ==
    IF ~RegexCompiles(fact.Pattern) THEN Refused(fact, "error parsing regexp")
    ELSE IF Len(deps) = 1 THEN Stored(fact, BoolV(MatchString(fact.Pattern, Sprint(deps[1]))))
    ELSE Stored(fact, BoolsV([k \in 1..Len(deps) |-> BoolV(MatchString(fact.Pattern, Sprint(deps[k])))]))

validateDepsMatch(fact, deps) ==
    IF Len(deps) < 2 THEN Stored(fact, BoolV(TRUE))
    ELSE Stored(fact, BoolV(\A k \in 2..Len(deps) : Sprint(deps[1]) = Sprint(deps[k])))

validateUnique(fact, deps) ==
    Stored(fact, BoolV(\A j, k \in 1..Len(deps) : j # k => Sprint(deps[j]) # Sprint(deps[k])))

processValidate(fact, fs) ==
    LET deps == getDependencyResults(fact, fs)
    IN  IF Len(deps) = 0 THEN Refused(fact, "validation requires dependencies")
        ELSE CASE ToLower(fact.Rule) = "regex_match" -> validateRegex(fact, deps)
               [] ToLower(fact.Rule) = "deps_match" -> validateDepsMatch(fact, deps)
               [] ToLower(fact.Rule) = "unique" -> validateUnique(fact, deps)
               [] OTHER -> Refused(fact, "unknown validation rule")

RECURSIVE SumOf(_)
SumOf(deps) ==
    IF Len(deps) = 0 THEN 0
    ELSE (IF convertToFloat64(deps[1]).ok THEN convertToFloat64(deps[1]).n ELSE 0) + SumOf(Tail(deps))

\* result := false instead of true before the and-loop
ProcessAggregateMutant(fact, fs) ==
    LET deps == getDependencyResults(fact, fs)
        bools == {k \in 1..Len(deps) : convertToBool(deps[k]).ok}
    IN  IF Len(deps) = 0 THEN Refused(fact, "aggregation requires dependencies")
        ELSE CASE ToLower(fact.Method) = "count" -> Stored(fact, NumV(Len(deps)))
               [] ToLower(fact.Method) = "sum" -> Stored(fact, NumV(SumOf(deps)))
               [] ToLower(fact.Method) = "and" -> Stored(fact, BoolV(FALSE))
               [] ToLower(fact.Method) = "or" ->
                    Stored(fact, BoolV(\E k \in bools : convertToBool(deps[k]).b))
               [] OTHER -> Refused(fact, "unknown aggregation method")

processAggregate(fact, fs) ==
    LET deps == getDependencyResults(fact, fs)
        bools == {k \in 1..Len(deps) : convertToBool(deps[k]).ok}
    IN  IF Len(deps) = 0 THEN Refused(fact, "aggregation requires dependencies")
        ELSE CASE ToLower(fact.Method) = "count" -> Stored(fact, NumV(Len(deps)))
               [] ToLower(fact.Method) = "sum" -> Stored(fact, NumV(SumOf(deps)))
               [] ToLower(fact.Method) = "and" ->
                    Stored(fact, BoolV(\A k \in bools : convertToBool(deps[k]).b))
               [] ToLower(fact.Method) = "or" ->
                    Stored(fact, BoolV(\E k \in bools : convertToBool(deps[k]).b))
               [] OTHER -> Refused(fact, "unknown aggregation method")

processCustom(fact) == Refused(fact, "unknown fact type")

processFact(fact, fs, out) ==
    IF fact.Type = "" THEN Refused(fact, "fact type is empty")
    ELSE CASE ToLower(fact.Type) = "extract" -> processExtract(fact, fs, out)
           [] ToLower(fact.Type) = "validate" -> processValidate(fact, fs)
           [] ToLower(fact.Type) = "aggregate" -> processAggregate(fact, fs)
           [] OTHER -> processCustom(fact)

\* the facts whose Result the processor of fact reads
ProcessorReads(fact, fs) ==
    IF \/ ToLower(fact.Type) \in {"validate", "aggregate"}
       \/ ToLower(fact.Type) = "extract" /\ ToLower(fact.Source) \in {"jsonapi", "api"}
    THEN {DependencyReads(fact.DependsOn, fs)[k] : k \in 1..Len(DependencyReads(fact.DependsOn, fs))}
    ELSE {}

-----------------------------------------------------------------------------
(* The fact lists a caller can pass *)

Blank ==
    [ID |-> "", Type |-> "", Source |-> "", Repo |-> <<>>, FilePath |-> <<>>,
     JSONPath |-> NilV, Rule |-> "", DependsOn |-> <<>>, Method |-> "", URI |-> <<>>,
     Pattern |-> "", SearchString |-> <<>>, PrometheusQuery |-> <<>>,
     Result |-> NilV, Done |-> FALSE]

GitHubFile(repo, path, rule) ==
    [Blank EXCEPT !.Type = "extract", !.Source = "github", !.Repo = repo,
                  !.FilePath = path, !.Rule = rule]

TReadme == GitHubFile(Token, Readme, "")

TMissing == GitHubFile(Svc, Missing, "")

\* a file of length zero
TEmpty == GitHubFile(Svc, Empty, "")

TCount == GitHubFile(Token, Count, "")

TNotEmpty == GitHubFile(Svc, Readme, "notempty")

TJsonList == [GitHubFile(Svc, OneTwo, "jsonpath") EXCEPT !.JSONPath = StrV(Iterate)]

TJsonMissing == [GitHubFile(Svc, Missing, "jsonpath") EXCEPT !.JSONPath = StrV(Dot)]

TMissingNotEmpty == GitHubFile(Svc, Missing, "NotEmpty")

TMissingRaw == GitHubFile(Svc, Missing, "raw")

\* the rule spelled as applyRule accepts it and extractFromGitHub does not
TMissingSearch == GitHubFile(Svc, Missing, "Search")

TSearch == [GitHubFile(Token, <<>>, "search") EXCEPT !.SearchString = <<"l", "l">>]

\* text that only a .bin file holds, text that only a file below .git holds,
\* text that only an unreadable file holds
TSearchBin == [GitHubFile(Svc, <<>>, "search") EXCEPT !.SearchString = <<"M", "e", "t", "a">>]

TSearchGit == [GitHubFile(Svc, <<>>, "search") EXCEPT !.SearchString = Ref]

TSearchKey == [GitHubFile(Web, <<>>, "search") EXCEPT !.SearchString = Key]

TApi == [Blank EXCEPT !.Type = "extract", !.Source = "api", !.URI = <<"/">> \o SloId]

TApiAlert == [Blank EXCEPT !.Type = "extract", !.Source = "jsonapi", !.URI = <<"/">> \o AlertId]

TApiRecipients == [Blank EXCEPT !.Type = "extract", !.Source = "api", !.URI = <<"/">> \o Recipients]

\* an API fact whose definition gives no uri
TApiNoURI == [Blank EXCEPT !.Type = "extract", !.Source = "api"]

Up == <<"u", "p">>

TProm == [Blank EXCEPT !.Type = "extract", !.Source = "prometheus", !.PrometheusQuery = Up]

TPromRange == [TProm EXCEPT !.Rule = "range"]

TPromBadRule == [TProm EXCEPT !.Rule = "jsonpath"]

TPromNoQuery == [TProm EXCEPT !.PrometheusQuery = <<>>]

TNoSource == [Blank EXCEPT !.Type = "extract"]

TBadSource == [Blank EXCEPT !.Type = "extract", !.Source = "ftp"]

TNoType == Blank

TBadType == [Blank EXCEPT !.Type = "custom"]

TRegex == [Blank EXCEPT !.Type = "validate", !.Rule = "regex_match", !.Pattern = "h"]

TRegexNoPattern == [Blank EXCEPT !.Type = "validate", !.Rule = "regex_match"]

TDepsMatch == [Blank EXCEPT !.Type = "validate", !.Rule = "deps_match"]

TBadRule == [Blank EXCEPT !.Type = "validate", !.Rule = "bogus"]

TCountAgg == [Blank EXCEPT !.Type = "aggregate", !.Method = "count"]

TAnd == [Blank EXCEPT !.Type = "Aggregate", !.Method = "and"]

TBadMethod == [Blank EXCEPT !.Type = "aggregate", !.Method = "avg"]

TOr == [Blank EXCEPT !.Type = "aggregate", !.Method = "or"]

TSum == [Blank EXCEPT !.Type = "aggregate", !.Method = "sum"]

Ids == <<"a", "b", "c", "d", "e", "f">>

With(t, deps) == [t EXCEPT !.DependsOn = deps]

\* dependency shapes: chains, forward references, cycles, self and unknown ids
GraphChoices ==
    { With(TReadme, <<>>), With(TReadme, <<"a">>), With(TReadme, <<"b">>),
      With(TReadme, <<"c">>), With(TReadme, <<"zz">>), With(TCountAgg, <<"a", "b">>),
      With(TNoType, <<>>) }

\* the extract facts the lists of the second family are filled up with
BaseChoices == { With(t, <<>>) : t \in {TReadme, TMissing, TCount} }

\* fact families, sources, rules and methods, over the first fact of the list
KindChoices ==
    { With(t, <<>>) : t \in {TReadme, TMissing, TCount, TNotEmpty, TJsonList, TJsonMissing,
                             TSearch, TApi, TNoSource, TBadSource, TNoType, TBadType,
                             TRegex, TCountAgg, TMissingNotEmpty, TMissingRaw,
                             TMissingSearch, TSearchBin, TSearchGit, TSearchKey,
                             TProm, TPromRange, TPromBadRule, TPromNoQuery, TEmpty, TApiNoURI} }
    \cup { With(t, <<"a">>) : t \in {TApi, TRegex, TRegexNoPattern, TDepsMatch, TBadRule,
                                     TCountAgg, TAnd, TBadMethod} }

MaxKindFacts == 2

ListsOf(choices, n) ==
    { [k \in 1..n |-> [c[k] EXCEPT !.ID = Ids[k]]] : c \in [1..n -> choices] }

\* lists of n facts, one of them of any kind and the others plain extracts
KindLists(n) ==
    { [k \in 1..n |-> [(IF k = c[1] THEN c[2] ELSE c[3][k]) EXCEPT !.ID = Ids[k]]] :
        c \in (1..n) \X KindChoices \X [1..n -> BaseChoices] }

\* four facts: a forward reference below a fact whose own dependencies all
\* precede it, next to an independent fact declared last
ChainLists ==
    { [k \in 1..4 |-> [c[k] EXCEPT !.ID = Ids[k]]] :
        c \in { <<With(TReadme, <<"b">>), With(TReadme, <<>>), With(t, <<"a">>), With(TReadme, <<>>)>> :
                   t \in {TReadme, TCountAgg} } }

\* every aggregate method over two extracts whose results are text, a number
\* in text, a boolean or nil, and over no dependency at all
AggregateLists ==
    { [k \in 1..3 |-> [c[k] EXCEPT !.ID = Ids[k]]] :
        c \in { <<With(x, <<>>), With(y, <<>>), With(t, <<"a", "b">>)>> :
                   x \in {TReadme, TMissing}, y \in {TReadme, TCount, TNotEmpty},
                   t \in {TCountAgg, TSum, TAnd, TOr} } }
    \cup { <<[With(t, <<>>) EXCEPT !.ID = "a"]>> : t \in {TCountAgg, TSum, TAnd, TOr} }
    \cup { [k \in 1..6 |->
               [<<With(TReadme, <<>>), With(TMissing, <<>>), With(TAnd, <<"a", "b">>),
                  With(TOr, <<"a", "b">>), With(TSum, <<"a", "b">>), With(TCountAgg, <<>>)>>[k]
                   EXCEPT !.ID = Ids[k]]] }

\* an API fact over two extracts whose results are text, nil, an empty list
\* or a list of numbers
ApiLists ==
    { [k \in 1..3 |-> [c[k] EXCEPT !.ID = Ids[k]]] :
        c \in { <<With(x, <<>>), With(y, <<>>), With(t, <<"a", "b">>)>> :
                   x \in {TCount, TMissing, TJsonMissing},
                   y \in {TCount, TJsonMissing, TJsonList},
                   t \in {TApi, TApiAlert, TApiRecipients} } }

FactLists ==
    UNION { ListsOf(GraphChoices, n) : n \in 0..MaxFacts }
    \cup UNION { KindLists(n) : n \in 1..MaxKindFacts }
    \cup ChainLists
    \cup AggregateLists
    \cup ApiLists

ComponentNames == {Svc, Web}

-----------------------------------------------------------------------------
(* EvaluateMetric *)

NoReturn == [val |-> NilV, err |-> NoErr]

\* NewPrometheusClient panics without a workspace URL, and when the AWS
\* configuration or identity cannot be obtained
ClientPanics(e) == ~e.workspaceURL \/ ~e.aws

AllDoneMutant(fs) == \E k \in 1..Len(fs) : fs[k].Done

AllDone(fs) == \A k \in 1..Len(fs) : fs[k].Done

\* the index the reverse scan stops at, 0 when every Result is nil
FinalIndex(fs) ==
    IF \E k \in 1..Len(fs) : fs[k].Result.t # "nil"
    THEN CHOOSE k \in 1..Len(fs) : fs[k].Result.t # "nil" /\ \A j \in (k + 1)..Len(fs) : fs[j].Result.t = "nil"
    ELSE 0

FinalResult(fs) == IF FinalIndex(fs) = 0 THEN NilV ELSE fs[FinalIndex(fs)].Result

\* the value returned for finalResult
Converted(v) == IF convertToFloat64(v).ok THEN NumV(convertToFloat64(v).n) ELSE v

\* the fact the scan loop visits at loop index i of n
ScanIndexMutant(i, n) == n + 1 - i

ScanIndex(i, n) == i

\* where the loop body goes when the processor has returned err
AfterProcessorMutant(err) == "mark"

AfterProcessor(err) == IF err = "" THEN "mark" ELSE "returned"

\* one record per Result read: the fact read, its Done flag then, the reader
\* (0 for the final scan)
ReadRecords(set, fs, reader) == {[of |-> k, done |-> fs[k].Done, reader |-> reader] : k \in set}

Event(e, i, p) == [ev |-> e, i |-> i, pass |-> p]

\* one record per extractFromSource call: the fact, the position of the
\* processor's return in the trace, the bytes and error returned, and the
\* request sent (uri is the GET's address, <<>> for a monitoring query)
ExtractRecords(i, at, fact, fs, out) ==
    IF ToLower(fact.Type) = "extract" /\ fact.Source # ""
    THEN {[i |-> i, at |-> at,
           err |-> extractFromSource(fact, fs, out).err,
           data |-> extractFromSource(fact, fs, out).data,
           request |-> IssuesRequest(fact, fs),
           uri |-> IF ToLower(fact.Source) \in {"jsonapi", "api"}
                   THEN substituteDependencyValues(fact, fs) ELSE <<>>]}
    ELSE {}

\* the fact under the scan loop's pointer
Cur == ScanIndex(idx, Len(facts))

\* no function is applied on its own
NoArg ==
    [kind |-> "none", jsonPath |-> NilV, data |-> NilBytes, v |-> NilV, fact |-> Blank,
     name |-> <<>>]

NoResult == [err |-> "", v |-> NilV, p |-> Absent, fact |-> Blank, once |-> Blank]

\* no other run of Process beside this one
NoPeer == [pc |-> "off", repos |-> <<>>, ci |-> 0]

\* the zero value of getComponentResponse: no field of componentByReference set
NoComponent == [id |-> <<>>, type |-> "", nodes |-> <<>>]

\* the Catalog's answers to the getComponent query: the request fails or
\* carries GraphQL errors, the body is not JSON, or it is a document in which
\* componentByReference is absent, null, or an object with the fields in has
NoResponse == [kind |-> "none", ref |-> "absent", has |-> {}, id |-> <<>>, type |-> "", nodes |-> <<>>]

\* the fields of componentByReference a document carries: all of them, the id
\* alone, all but the id, none
ComponentFields == {{"id", "type", "metricSources"}, {"id"}, {"type", "metricSources"}, {}}

ComponentId(name) == <<"a", "r", "i", ":">> \o name

ComponentType(name) == IF name = Svc THEN "SERVICE" ELSE "LIBRARY"

Responses(name, nodes) ==
    {[NoResponse EXCEPT !.kind = k] : k \in {"error", "invalid"}}
        \cup {[NoResponse EXCEPT !.kind = "data", !.ref = r] : r \in {"absent", "null"}}
        \cup {[kind |-> "data", ref |-> "object", has |-> h,
               id |-> IF "id" \in h THEN ComponentId(name) ELSE <<>>,
               type |-> IF "type" \in h THEN ComponentType(name) ELSE "",
               nodes |-> IF "metricSources" \in h THEN nodes ELSE <<>>] : h \in ComponentFields}

\* json.Unmarshal(respData, &getComponentResponse): a field the document
\* carries is overwritten, every other field keeps its value, and null has no
\* effect on a struct
Unmarshal(r, g) ==
    IF r.ref # "object" THEN g
    ELSE [id |-> IF "id" \in r.has THEN r.id ELSE g.id,
          type |-> IF "type" \in r.has THEN r.type ELSE g.type,
          nodes |-> IF "metricSources" \in r.has THEN r.nodes ELSE g.nodes]

NoFound == [Name |-> <<>>, ID |-> <<>>, Type |-> "", Metrics |-> <<>>]

NotBuiltin(node) == ~node.builtin

\* GetComponent(name) when the Catalog answers r and getComponentResponse holds
\* g: the error, the component returned, and what getComponentResponse holds
\* afterwards
getComponent(name, r, g) ==
    IF r.kind = "error" THEN [err |-> "request failed", component |-> NoFound, response |-> g]
    ELSE IF r.kind = "invalid"
    THEN [err |-> "failed to parse response", component |-> NoFound, response |-> g]
    ELSE LET comp == Unmarshal(r, g)
         IN  IF comp.id = <<>>
             THEN [err |-> "component not found", component |-> NoFound, response |-> comp]
             ELSE [err |-> "",
                   component |-> [Name |-> name, ID |-> comp.id, Type |-> comp.type,
                                  Metrics |-> SelectSeq(comp.nodes, NotBuiltin)],
                   response |-> comp]

\* GetComponent has not been called in this run of Process
NoLookup == [response |-> NoResponse, err |-> "", component |-> NoFound]

\* ProcessAll is not running
NoProcessAll ==
    [pc |-> "off", componentList |-> <<>>, verbose |-> FALSE, allComponents |-> FALSE,
     ci |-> 0, err |-> NoErr, started |-> <<>>, finished |-> <<>>]

\* Process is not running
NoProcess ==
    [pc |-> "off", component |-> <<>>, nodes |-> <<>>, lookup |-> NoLookup, metrics |-> <<>>,
     metricDir |-> FALSE, repos |-> <<>>,
     ci |-> 0, cloned |-> <<>>, mi |-> 0, attempted |-> <<>>, results |-> <<>>,
     submitted |-> <<>>, err |-> "", peer |-> NoPeer]

Init ==
    /\ facts \in FactLists
    /\ orig = facts
    /\ env \in [workspaceURL : BOOLEAN, aws : BOOLEAN]
    /\ pc = "idle"
    /\ idx = 0
    /\ progress = FALSE
    /\ pass = 0
    /\ componentName = <<>>
    /\ calls = 0
    /\ ret = NoReturn
    /\ trace = <<>>
    /\ reads = {}
    /\ extracts = {}
    /\ arg = NoArg
    /\ applied = "none"
    /\ result = NoResult
    /\ cancelled = FALSE
    /\ proc = NoProcess
    /\ tree = AllRepos
    /\ getComponentResponse = NoComponent
    /\ all = NoProcessAll

\* the call, up to the first scan pass
Enter ==
    /\ pc \in {"idle", "returned"}
    /\ calls < MaxCalls
    /\ \E name \in ComponentNames :
        /\ componentName' = name
        /\ calls' = calls + 1
        /\ trace' = Append(trace, Event("enter", 0, 0))
        /\ ret' = IF Len(facts) = 0 THEN [val |-> NilV, err |-> Err("nofacts", "", "")] ELSE NoReturn
        /\ pc' = IF Len(facts) = 0 THEN "returned"
                 ELSE IF ClientPanics(env) THEN "panicked"
                 ELSE "scan"
        /\ facts' = IF Len(facts) = 0 \/ ClientPanics(env) THEN facts
                    ELSE [k \in 1..Len(facts) |-> replacePlaceholders(facts[k], name)]
        /\ idx' = IF Len(facts) = 0 \/ ClientPanics(env) THEN 0 ELSE 1
        /\ pass' = IF Len(facts) = 0 \/ ClientPanics(env) THEN 0 ELSE 1
        /\ progress' = FALSE
    /\ UNCHANGED <<orig, env, reads, extracts>>
    /\ UNCHANGED outer

\* a fact that is done, or whose dependencies are not satisfied, is passed over
Skip ==
    /\ pc = "scan"
    /\ idx <= Len(facts)
    /\ facts[Cur].Done \/ ~areDependenciesSatisfied(facts[Cur], facts)
    /\ idx' = idx + 1
    /\ UNCHANGED <<facts, orig, env, pc, progress, pass, componentName, calls, ret, trace, reads,
                   extracts>>
    /\ UNCHANGED outer

\* the processor of a ready fact is called
Invoke ==
    /\ pc = "scan"
    /\ idx <= Len(facts)
    /\ ~facts[Cur].Done
    /\ areDependenciesSatisfied(facts[Cur], facts)
    /\ pc' = "proc"
    /\ trace' = Append(trace, Event("invoke", Cur, pass))
    /\ UNCHANGED <<facts, orig, env, idx, progress, pass, componentName, calls, ret, reads,
                   extracts>>
    /\ UNCHANGED outer

\* the processor returns; an error ends the call
ProcessorReturns ==
    /\ pc = "proc"
    /\ \E out \in Outcomes :
        LET r == processFact(facts[Cur], facts, out)
            to == AfterProcessor(r.err)
        IN  /\ IssuesRequest(facts[Cur], facts) \/ out.ok
            /\ reads' = reads \cup ReadRecords(ProcessorReads(facts[Cur], facts), facts, Cur)
            /\ extracts' = extracts \cup ExtractRecords(Cur, Len(trace) + 1, facts[Cur], facts, out)
            /\ facts' = [facts EXCEPT ![Cur] = r.fact]
            /\ trace' = Append(trace, Event(IF r.err = "" THEN "ok" ELSE "error", Cur, pass))
            /\ pc' = to
            /\ ret' = IF to = "mark" THEN ret
                      ELSE [val |-> NilV, err |-> Err("process", facts[Cur].ID, r.err)]
            /\ idx' = IF to = "mark" THEN idx ELSE 0
            /\ progress' = IF to = "mark" THEN progress ELSE FALSE
    /\ UNCHANGED <<orig, env, pass, componentName, calls>>
    /\ UNCHANGED outer

\* fact.Done = true; progress = true
MarkDone ==
    /\ pc = "mark"
    /\ facts' = [facts EXCEPT ![Cur].Done = TRUE]
    /\ progress' = TRUE
    /\ idx' = idx + 1
    /\ pc' = "scan"
    /\ UNCHANGED <<orig, env, pass, componentName, calls, ret, trace, reads, extracts>>
    /\ UNCHANGED outer

EndPassMutant ==
    /\ pc = "scan"
    /\ idx > Len(facts)
    /\ pc' = IF progress THEN "scan" ELSE IF AllDone(facts) THEN "final" ELSE "returned"
    /\ ret' = IF ~AllDone(facts) /\ ~progress
              THEN [val |-> NilV, err |-> Err("circular", "", "")] ELSE ret
    /\ idx' = IF progress THEN 1 ELSE 0
    /\ pass' = IF progress THEN pass + 1 ELSE pass
    /\ progress' = FALSE
    /\ UNCHANGED <<facts, orig, env, componentName, calls, trace, reads, extracts>>
    /\ UNCHANGED outer

\* the end of a scan pass: leave the loop, fail, or scan again
EndPass ==
    /\ pc = "scan"
    /\ idx > Len(facts)
    /\ pc' = IF AllDone(facts) THEN "final" ELSE IF ~progress THEN "returned" ELSE "scan"
    /\ ret' = IF ~AllDone(facts) /\ ~progress
              THEN [val |-> NilV, err |-> Err("circular", "", "")] ELSE ret
    /\ idx' = IF AllDone(facts) \/ ~progress THEN 0 ELSE 1
    /\ pass' = IF AllDone(facts) \/ ~progress THEN pass ELSE pass + 1
    /\ progress' = FALSE
    /\ UNCHANGED <<facts, orig, env, componentName, calls, trace, reads, extracts>>
    /\ UNCHANGED outer

\* the reverse scan for the final result, and its conversion
Finish ==
    /\ pc = "final"
    /\ reads' = reads \cup ReadRecords({k \in 1..Len(facts) : k >= FinalIndex(facts)}, facts, 0)
    /\ ret' = [val |-> Converted(FinalResult(facts)), err |-> NoErr]
    /\ pc' = "returned"
    /\ UNCHANGED <<facts, orig, env, idx, progress, pass, componentName, calls, trace, extracts>>
    /\ UNCHANGED outer

Next == Enter \/ Skip \/ Invoke \/ ProcessorReturns \/ MarkDone \/ EndPass \/ Finish

Spec == Init /\ [][Next]_vars

\* EvaluateMetric on the dependency-graph lists, every step of a running call
\* taken in the end: the goroutine that runs the call is scheduled, and every
\* processor call returns
GraphLists == UNION {ListsOf(GraphChoices, n) : n \in 1..MaxFacts} \cup ChainLists

LiveInit == Init /\ facts \in GraphLists

LiveSpec ==
    /\ LiveInit
    /\ [][Next]_vars
    /\ WF_vars(Skip \/ Invoke \/ ProcessorReturns \/ MarkDone \/ EndPass \/ Finish)

-----------------------------------------------------------------------------
(* EvaluateMetric under a caller whose deadline or cancellation signal fires   *)
(* while the call runs.  EvaluateMetric has no context parameter: it makes its *)
(* own context.Background(), and the monitoring client does the same for every *)
(* query, so no step of the call reads the caller's signal.                    *)

Running == pc \in {"scan", "proc", "mark", "final"}

Cancel ==
    /\ Running
    /\ ~cancelled
    /\ cancelled' = TRUE
    /\ trace' = Append(trace, Event("cancel", 0, pass))
    /\ UNCHANGED <<facts, orig, env, pc, idx, progress, pass, componentName, calls, ret, reads,
                   extracts, arg, applied, result, proc, tree, getComponentResponse, all>>

CancelInit == Init /\ facts \in ApiLists \cup ChainLists

CancelNext == Next \/ Cancel

CancelSpec == CancelInit /\ [][CancelNext]_vars

-----------------------------------------------------------------------------
(* Process: one component, its repositories cloned below LocalBasePath, then   *)
(* each of its metrics loaded, evaluated and submitted in turn                 *)

MaxMetrics == 2

\* a fact that reads a repository named in the metric definition
TSvcCount == GitHubFile(Svc, Count, "")

One(t) == <<[With(t, <<>>) EXCEPT !.ID = "a"]>>

\* the fact lists of the metric definitions in the metric directory
MetricFacts == {<<>>, One(TReadme), One(TSvcCount), One(TApi), One(TProm)}

\* a metric source of the component in the Catalog: whether its definition id
\* contains "builtin", whether the metric directory defines the metric for the
\* component's type, and its facts there
MetricChoices ==
    {[found |-> FALSE, facts |-> <<>>, builtin |-> b] : b \in BOOLEAN}
        \cup {[found |-> TRUE, facts |-> f, builtin |-> FALSE] : f \in MetricFacts}

MetricLists == UNION {[1..n -> MetricChoices] : n \in 0..MaxMetrics}

Processes ==
    {[NoProcess EXCEPT !.pc = "start", !.component = c, !.nodes = m] :
        c \in ComponentNames, m \in MetricLists}

\* before Process is called: the tree left by earlier runs, EvaluateMetric not running
ProcessStart ==
    /\ tree = AllRepos
    /\ getComponentResponse = NoComponent
    /\ env \in [workspaceURL : BOOLEAN, aws : BOOLEAN]
    /\ facts = <<>>
    /\ orig = <<>>
    /\ pc = "idle"
    /\ idx = 0
    /\ progress = FALSE
    /\ pass = 0
    /\ componentName = <<>>
    /\ calls = 0
    /\ ret = NoReturn
    /\ trace = <<>>
    /\ reads = {}
    /\ extracts = {}
    /\ arg = NoArg
    /\ applied = "none"
    /\ result = NoResult
    /\ cancelled = FALSE

ProcessInit == proc \in Processes /\ all = NoProcessAll /\ ProcessStart

\* return fmt.Errorf(...)
ReturnError(e) == [proc EXCEPT !.pc = "returned", !.err = e]

\* compass.GetComponent(componentName): component.Metrics is what the metric
\* loop ranges over
GetComponent ==
    /\ proc.pc = "start"
    /\ \E r \in Responses(proc.component, proc.nodes) :
        LET out == getComponent(proc.component, r, getComponentResponse)
            looked == [proc EXCEPT !.lookup = [response |-> r, err |-> out.err,
                                               component |-> out.component]]
        IN  /\ proc' = IF out.err = ""
                        THEN [looked EXCEPT !.pc = "cloner", !.metrics = out.component.Metrics]
                        ELSE [looked EXCEPT !.pc = "returned", !.err = "failed to get component"]
            /\ getComponentResponse' = out.response
    /\ UNCHANGED <<all, arg, applied, result, cancelled, tree, inner>>

\* services.NewGitHubCloner: without a token or without git the process exits
NewGitHubCloner ==
    /\ proc.pc = "cloner"
    /\ \E ok \in BOOLEAN : proc' = [proc EXCEPT !.pc = IF ok THEN "setup" ELSE "exited"]
    /\ UNCHANGED <<getComponentResponse, all, arg, applied, result, cancelled, tree, inner>>

\* cloner.SetupMetricDirectory, and the list of repositories to clone
SetupMetricDirectory ==
    /\ proc.pc = "setup"
    /\ \E o \in {"unset", "skip", "error"} :
        proc' = IF o = "error" THEN ReturnError("failed to setup metric directory")
                ELSE [proc EXCEPT !.pc = "remove", !.ci = 1, !.metricDir = (o = "skip"),
                                  !.repos = IF o = "skip" THEN <<proc.component>>
                                            ELSE <<proc.component, CatalogRepo>>]
    /\ UNCHANGED <<getComponentResponse, all, arg, applied, result, cancelled, tree, inner>>

\* Clone: an existing directory is removed first
CloneRemoveAll ==
    /\ proc.pc = "remove"
    /\ \E ok \in BOOLEAN :
        /\ ok \/ proc.repos[proc.ci] \in tree
        /\ proc' = IF ok THEN [proc EXCEPT !.pc = "clone"]
                    ELSE ReturnError("failed to clone repository")
        /\ tree' = IF ok THEN tree \ {proc.repos[proc.ci]} ELSE tree
    /\ UNCHANGED <<getComponentResponse, all, arg, applied, result, cancelled, inner>>

CloneGitCloneMutant ==
    /\ proc.pc = "clone"
    /\ \E ok \in BOOLEAN :
        /\ ok => proc.repos[proc.ci] \notin tree
        /\ proc' = IF proc.ci < Len(proc.repos)
                    THEN [proc EXCEPT !.pc = "remove", !.ci = proc.ci + 1,
                                      !.cloned = IF ok THEN Append(proc.cloned, proc.repos[proc.ci])
                                                 ELSE proc.cloned]
                    ELSE [proc EXCEPT !.pc = "stat",
                                      !.cloned = IF ok THEN Append(proc.cloned, proc.repos[proc.ci])
                                                 ELSE proc.cloned]
        /\ tree' = IF ok THEN tree \cup {proc.repos[proc.ci]} ELSE tree
    /\ UNCHANGED <<getComponentResponse, all, arg, applied, result, cancelled, inner>>

\* Clone: git clone into the directory, which fails when the directory exists
CloneGitClone ==
    /\ proc.pc = "clone"
    /\ \E ok \in BOOLEAN :
        /\ ok => proc.repos[proc.ci] \notin tree
        /\ proc' = IF ~ok THEN ReturnError("failed to clone repository")
                    ELSE IF proc.ci < Len(proc.repos)
                    THEN [proc EXCEPT !.pc = "remove", !.ci = proc.ci + 1,
                                      !.cloned = Append(proc.cloned, proc.repos[proc.ci])]
                    ELSE [proc EXCEPT !.pc = "stat",
                                      !.cloned = Append(proc.cloned, proc.repos[proc.ci])]
        /\ tree' = IF ok THEN tree \cup {proc.repos[proc.ci]} ELSE tree
    /\ UNCHANGED <<getComponentResponse, all, arg, applied, result, cancelled, inner>>

\* the metric directory is ./repos/metrics when METRIC_DIR is set, and lies
\* inside the catalog repository otherwise
MetricPathPresent == proc.metricDir \/ CatalogRepo \in tree

\* os.Stat(metricPath)
StatMetricPath ==
    /\ proc.pc = "stat"
    /\ \E exists \in BOOLEAN :
        /\ exists => MetricPathPresent
        /\ proc' = IF exists THEN [proc EXCEPT !.pc = "metric", !.mi = 1]
                    ELSE ReturnError("metric directory not found")
    /\ UNCHANGED <<getComponentResponse, all, arg, applied, result, cancelled, tree, inner>>

\* compass.GetMetricFacts for the next metric; on an error the loop continues
GetMetricFacts ==
    /\ proc.pc = "metric"
    /\ proc.mi <= Len(proc.metrics)
    /\ LET m == proc.metrics[proc.mi]
           loaded == m.found /\ MetricPathPresent
       IN  /\ proc' = [proc EXCEPT !.attempted = Append(proc.attempted, proc.mi),
                                   !.pc = IF loaded THEN "evaluate" ELSE "metric",
                                   !.mi = IF loaded THEN proc.mi ELSE proc.mi + 1]
           /\ facts' = IF loaded THEN m.facts ELSE facts
           /\ orig' = IF loaded THEN m.facts ELSE orig
           /\ pc' = IF loaded THEN "idle" ELSE pc
           /\ ret' = IF loaded THEN NoReturn ELSE ret
    /\ UNCHANGED <<env, idx, progress, pass, componentName, calls, trace, reads, extracts>>
    /\ UNCHANGED <<getComponentResponse, all, arg, applied, result, cancelled, tree>>

\* facts.EvaluateMetric(metricFacts, component.Name), step by step
Evaluate ==
    /\ proc.pc = "evaluate"
    /\ pc \notin {"returned", "panicked"}
    /\ Next
    /\ componentName' = proc.component

\* EvaluateMetric returned an error: a warning, and the loop continues
EvaluateFailed ==
    /\ proc.pc = "evaluate"
    /\ pc = "returned"
    /\ ret.err # NoErr
    /\ proc' = [proc EXCEPT !.pc = "metric", !.mi = proc.mi + 1,
                            !.results = Append(proc.results, [mi |-> proc.mi, ret |-> ret])]
    /\ UNCHANGED <<getComponentResponse, all, arg, applied, result, cancelled, tree, inner>>

\* compass.PutMetric with the formatted value; on an error the loop continues
PutMetric ==
    /\ proc.pc = "evaluate"
    /\ pc = "returned"
    /\ ret.err = NoErr
    /\ \E ok \in BOOLEAN :
        proc' = [proc EXCEPT !.pc = "metric", !.mi = proc.mi + 1,
                            !.results = Append(proc.results, [mi |-> proc.mi, ret |-> ret]),
                            !.submitted = Append(proc.submitted,
                                                 [mi |-> proc.mi, value |-> Sprint(ret.val),
                                                  ok |-> ok])]
    /\ UNCHANGED <<getComponentResponse, all, arg, applied, result, cancelled, tree, inner>>

\* the end of the metric loop: return nil
ProcessReturns ==
    /\ proc.pc = "metric"
    /\ proc.mi > Len(proc.metrics)
    /\ proc' = [proc EXCEPT !.pc = "returned"]
    /\ UNCHANGED <<getComponentResponse, all, arg, applied, result, cancelled, tree, inner>>

ProcessNext ==
    \/ GetComponent
    \/ NewGitHubCloner
    \/ SetupMetricDirectory
    \/ CloneRemoveAll
    \/ CloneGitClone
    \/ StatMetricPath
    \/ GetMetricFacts
    \/ Evaluate
    \/ EvaluateFailed
    \/ PutMetric
    \/ ProcessReturns

ProcessSpec == ProcessInit /\ [][ProcessNext]_vars

-----------------------------------------------------------------------------
(* Process beside another run of Process, started by the same caller for a    *)
(* component of its own.  Both runs clone below the one LocalBasePath, and     *)
(* every EvaluateMetric call builds its evaluator on the one path "./repos".   *)

\* the other run clones its component's repository and the catalog repository
Peers == {[pc |-> "remove", repos |-> <<c, CatalogRepo>>, ci |-> 1] : c \in ComponentNames}

\* metrics whose facts read the tree and call no remote service
TreeMetrics ==
    {[found |-> TRUE, facts |-> f, builtin |-> FALSE] : f \in {<<>>, One(TReadme), One(TSvcCount)}}

ConcurrentInit ==
    /\ proc \in {[p EXCEPT !.peer = q] :
                   p \in {r \in Processes : \A k \in 1..Len(r.nodes) : r.nodes[k] \in TreeMetrics},
                   q \in Peers}
    /\ all = NoProcessAll
    /\ ProcessStart

\* Clone of the other run: an existing directory is removed first
PeerRemoveAll ==
    /\ proc.peer.pc = "remove"
    /\ tree' = tree \ {proc.peer.repos[proc.peer.ci]}
    /\ proc' = [proc EXCEPT !.peer.pc = "clone"]
    /\ UNCHANGED <<getComponentResponse, all, arg, applied, result, cancelled, inner>>

\* Clone of the other run: git clone into the directory
PeerGitClone ==
    /\ proc.peer.pc = "clone"
    /\ \E ok \in BOOLEAN :
        /\ ok => proc.peer.repos[proc.peer.ci] \notin tree
        /\ tree' = IF ok THEN tree \cup {proc.peer.repos[proc.peer.ci]} ELSE tree
        /\ proc' = IF ~ok THEN [proc EXCEPT !.peer.pc = "failed"]
                    ELSE IF proc.peer.ci < Len(proc.peer.repos)
                    THEN [proc EXCEPT !.peer.pc = "remove", !.peer.ci = proc.peer.ci + 1]
                    ELSE [proc EXCEPT !.peer.pc = "done"]
    /\ UNCHANGED <<getComponentResponse, all, arg, applied, result, cancelled, inner>>

ConcurrentNext == ProcessNext \/ PeerRemoveAll \/ PeerGitClone

ConcurrentSpec == ConcurrentInit /\ [][ConcurrentNext]_vars

-----------------------------------------------------------------------------
(* ProcessAll: one CompassService, and Process for each component of the list *)

MaxComponents == 2

ComponentLists == UNION {[1..n -> ComponentNames] : n \in 1..MaxComponents}

\* the calls of the compute command: the names of its argument, or no list
\* with the flag for all components
ProcessAlls ==
    {[NoProcessAll EXCEPT !.pc = "start", !.componentList = l] : l \in ComponentLists}
        \cup {[NoProcessAll EXCEPT !.pc = "start", !.allComponents = TRUE, !.verbose = v] :
                 v \in BOOLEAN}

\* the metric sources the Catalog holds for a component of the list
CatalogNodes ==
    {<<>>} \cup {<<m>> : m \in {[found |-> TRUE, facts |-> <<>>, builtin |-> FALSE],
                               [found |-> TRUE, facts |-> One(TReadme), builtin |-> FALSE],
                               [found |-> FALSE, facts |-> <<>>, builtin |-> TRUE]}}

\* the monitoring back-end is configured, or it is not
ProcessAllInit ==
    /\ all \in ProcessAlls
    /\ proc = NoProcess
    /\ ProcessStart
    /\ env.workspaceURL = env.aws

\* with both flags the list of all components is printed and nothing is processed
ListOnly == all.pc = "start" /\ all.allComponents /\ all.verbose

\* the index the range loop is at
LoopIndex == IF all.pc = "start" THEN 1 ELSE all.ci

InLoop == all.pc \in {"start", "loop"} /\ ~ListOnly

\* what a run of Process leaves behind when it returns
Finished(p) ==
    [component |-> p.component, lookup |-> p.lookup, submitted |-> p.submitted, err |-> p.err]

\* compass.GetAllComponentList(), printed; ProcessAll returns
GetAllComponentList ==
    /\ ListOnly
    /\ \E ok \in BOOLEAN :
        all' = [all EXCEPT !.pc = "returned",
                           !.err = IF ok THEN NoErr ELSE Err("list", "", "request failed")]
    /\ UNCHANGED <<getComponentResponse, arg, applied, result, cancelled, proc, tree, inner>>

\* the loop calls Process for the next component name
ProcessCall ==
    /\ InLoop
    /\ LoopIndex <= Len(all.componentList)
    /\ \E nodes \in CatalogNodes :
        proc' = [NoProcess EXCEPT !.pc = "start", !.component = all.componentList[LoopIndex],
                                  !.nodes = nodes]
    /\ all' = [all EXCEPT !.pc = "process", !.ci = LoopIndex,
                           !.started = Append(all.started, LoopIndex)]
    /\ facts' = <<>>
    /\ orig' = <<>>
    /\ pc' = "idle"
    /\ idx' = 0
    /\ progress' = FALSE
    /\ pass' = 0
    /\ componentName' = <<>>
    /\ calls' = 0
    /\ ret' = NoReturn
    /\ trace' = <<>>
    /\ reads' = {}
    /\ extracts' = {}
    /\ UNCHANGED <<env, getComponentResponse, arg, applied, result, cancelled, tree>>

\* the loop goes on after an error of Process
ProcessReturnedMutant ==
    /\ all.pc = "process"
    /\ proc.pc = "returned"
    /\ all' = [all EXCEPT !.finished = Append(all.finished, Finished(proc)),
                           !.pc = "loop", !.ci = all.ci + 1]
    /\ proc' = NoProcess
    /\ UNCHANGED <<getComponentResponse, arg, applied, result, cancelled, tree, inner>>

\* Process returned: its error ends ProcessAll, wrapped with the component name
ProcessReturned ==
    /\ all.pc = "process"
    /\ proc.pc = "returned"
    /\ all' = IF proc.err # ""
               THEN [all EXCEPT !.finished = Append(all.finished, Finished(proc)),
                                !.pc = "returned",
                                !.err = Err("failed to process component", proc.component, proc.err)]
               ELSE [all EXCEPT !.finished = Append(all.finished, Finished(proc)),
                                !.pc = "loop", !.ci = all.ci + 1]
    /\ proc' = NoProcess
    /\ UNCHANGED <<getComponentResponse, arg, applied, result, cancelled, tree, inner>>

\* the end of the list: return nil
ProcessAllReturns ==
    /\ InLoop
    /\ LoopIndex > Len(all.componentList)
    /\ all' = [all EXCEPT !.pc = "returned"]
    /\ UNCHANGED <<getComponentResponse, arg, applied, result, cancelled, proc, tree, inner>>

ProcessAllNext ==
    \/ GetAllComponentList
    \/ ProcessCall
    \/ ProcessNext
    \/ ProcessReturned
    \/ ProcessAllReturns

ProcessAllSpec == ProcessAllInit /\ [][ProcessAllNext]_vars

-----------------------------------------------------------------------------
(* The rule applier and the coercions, each applied on its own to one argument *)

JSONTexts ==
    {<<>>, Null, True, EmptyArray, Seven, OneTwo, EmptyObject, EmptyRecipients, <<"4", "2">>, Hello}

JSONPaths == {NilV, NumV(1), StrV(<<>>), StrV(Dot), StrV(Iterate), StrV(<<".", "[">>)}

\* the texts handed to the coercions as Go strings
BoolTexts ==
    {<<>>, True, False, Hello, <<"4", "2">>, <<"1">>, <<"0">>, <<"t">>, <<"T">>, <<"f">>, <<"F">>,
     <<"T", "R", "U", "E">>, <<"T", "r", "u", "e">>, <<"t", "R", "U", "E">>,
     <<"F", "A", "L", "S", "E">>, <<"F", "a", "l", "s", "e">>, <<"f", "A", "L", "S", "E">>}

CoercionValues ==
    {NilV, BoolV(TRUE), BoolV(FALSE), ListV(<<>>), ListV(<<NumV(1)>>), MapV}
    \cup {NumV(n) : n \in {0, 2}} \cup {IntV(n) : n \in {0, 3}}
    \cup {Int64V(n) : n \in {0, 5}} \cup {Float32V(n) : n \in {0, 1}}
    \cup {StrV(t) : t \in BoolTexts}

\* texts with no, one, two and nested placeholders, and with a stray "$"
PlaceholderTexts ==
    {<<>>, Readme, Token, Token \o <<"/">> \o Token,
     <<"$", "{", "M", "e", "t">> \o Token \o <<"d", "a", "t", "a", ".", "N", "a", "m", "e", "}">>,
     <<"$", "a">>}

PlaceholderFacts ==
    { [Blank EXCEPT !.ID = "a", !.Repo = x, !.FilePath = y, !.URI = <<"/">> \o x,
                    !.PrometheusQuery = y, !.JSONPath = j] :
        x \in PlaceholderTexts, y \in {Readme, Token},
        j \in {NilV, NumV(1), StrV(<<".">> \o Token)} }

\* component names: plain ones, the empty one, and ones that the replacement
\* template expands
PlaceholderNames ==
    {Svc, <<>>, <<"a">>, <<"a", "$", "0">>, <<"$", "$">>, <<"$", "a">>, <<"$", "{", "0", "}">>,
     <<"$">>, Token}

Args ==
    { [NoArg EXCEPT !.kind = "json", !.jsonPath = q, !.data = Bytes(d)] :
        q \in JSONPaths, d \in JSONTexts }
    \cup { [NoArg EXCEPT !.kind = "value", !.v = x] : x \in CoercionValues }
    \cup { [NoArg EXCEPT !.kind = "fact", !.fact = f, !.name = n] :
             f \in PlaceholderFacts, n \in PlaceholderNames }

\* EvaluateMetric is not running
Idle ==
    /\ facts = <<>>
    /\ orig = <<>>
    /\ env = [workspaceURL |-> TRUE, aws |-> TRUE]
    /\ pc = "idle"
    /\ idx = 0
    /\ progress = FALSE
    /\ pass = 0
    /\ componentName = <<>>
    /\ calls = 0
    /\ ret = NoReturn
    /\ trace = <<>>
    /\ reads = {}
    /\ extracts = {}

FunctionInit ==
    /\ Idle
    /\ arg \in Args
    /\ applied = "none"
    /\ result = NoResult
    /\ cancelled = FALSE
    /\ proc = NoProcess
    /\ tree = AllRepos
    /\ getComponentResponse = NoComponent
    /\ all = NoProcessAll

ApplyJSONPath ==
    /\ applied = "none"
    /\ arg.kind = "json"
    /\ applied' = "applyJSONPath"
    /\ result' = [NoResult EXCEPT !.err = applyJSONPath(arg.jsonPath, arg.data).err,
                                  !.v = applyJSONPath(arg.jsonPath, arg.data).v]
    /\ UNCHANGED <<getComponentResponse, all, arg, cancelled, proc, tree, inner>>

ConvertToFloat64 ==
    /\ applied = "none"
    /\ arg.kind = "value"
    /\ applied' = "convertToFloat64"
    /\ result' = [NoResult EXCEPT !.p = convertToFloat64(arg.v)]
    /\ UNCHANGED <<getComponentResponse, all, arg, cancelled, proc, tree, inner>>

ConvertToBool ==
    /\ applied = "none"
    /\ arg.kind = "value"
    /\ applied' = "convertToBool"
    /\ result' = [NoResult EXCEPT !.p = convertToBool(arg.v)]
    /\ UNCHANGED <<getComponentResponse, all, arg, cancelled, proc, tree, inner>>

\* replacePlaceholders(fact, componentName), and once more on what it returned
ReplacePlaceholders ==
    /\ arg.kind = "fact"
    /\ applied \in {"none", "replacePlaceholders"}
    /\ applied' = IF applied = "none" THEN "replacePlaceholders" ELSE "replacePlaceholders twice"
    /\ result' = IF applied = "none"
                  THEN [NoResult EXCEPT !.fact = replacePlaceholders(arg.fact, arg.name),
                                        !.once = replacePlaceholders(arg.fact, arg.name)]
                  ELSE [result EXCEPT !.fact = replacePlaceholders(result.fact, arg.name)]
    /\ UNCHANGED <<getComponentResponse, all, arg, cancelled, proc, tree, inner>>

FunctionNext == ApplyJSONPath \/ ConvertToFloat64 \/ ConvertToBool \/ ReplacePlaceholders

FunctionSpec == FunctionInit /\ [][FunctionNext]_vars

-----------------------------------------------------------------------------
(* Vocabulary of the properties *)

Returned == pc = "returned"

Succeeded == pc = "returned" /\ ret.err.kind = "nil"

Invokes == {p \in 1..Len(trace) : trace[p].ev = "invoke"}

\* the positions where a processor returned
Returns == {p \in 1..Len(trace) : trace[p].ev \in {"ok", "error"}}

\* the dependency results the and/or reducers use, and those sum uses
UsableBools(deps) == {k \in 1..Len(deps) : convertToBool(deps[k]).ok}

UsableFloats(deps) == {k \in 1..Len(deps) : convertToFloat64(deps[k]).ok}

\* both events belong to the same call
SameCall(p, q) == \A m \in p..q : trace[m].ev # "enter"

\* fact i names fact j in its dependsOn
DependsDirect(fs, i, j) == \E k \in 1..Len(fs[i].DependsOn) : fs[i].DependsOn[k] = fs[j].ID

Edges(fs) == {e \in (1..Len(fs)) \X (1..Len(fs)) : DependsDirect(fs, e[1], e[2])}

RECURSIVE Closure(_, _, _)
Closure(R, E, n) ==
    IF n = 0 THEN R
    ELSE Closure(R \cup UNION {{<<x[1], y[2]>> : y \in {e \in E : e[1] = x[2]}} : x \in R}, E, n - 1)

\* i depends on j, directly or transitively
Reach(fs) == LET E == Edges(fs) IN Closure(E, E, Len(fs))

HasCycle(fs) == \E k \in 1..Len(fs) : <<k, k>> \in Reach(fs)

Unordered(fs, i, j) == LET R == Reach(fs) IN <<i, j>> \notin R /\ <<j, i>> \notin R

\* fact i, or a fact it depends on, names a dependency declared after itself
WaitsForLater(fs, i) ==
    \E x \in {i} \cup {e[2] : e \in {r \in Reach(fs) : r[1] = i}} :
        \E m \in 1..Len(fs) : DependsDirect(fs, x, m) /\ m > x

-----------------------------------------------------------------------------
(* C1: whenever the processor of a fact is invoked, every id in its dependsOn *)
(* is the id of a fact whose processor returned without error earlier, and    *)
(* that fact is marked done.                                                  *)

C1_DependenciesCompleteFirst ==
    \A p \in Invokes :
        \A k \in 1..Len(facts[trace[p].i].DependsOn) :
            LET d == facts[trace[p].i].DependsOn[k]
            IN  /\ d \in FactIds(facts)
                /\ facts[FactMap(facts, d)].Done
                /\ \E q \in 1..(p - 1) : trace[q].ev = "ok" /\ trace[q].i = FactMap(facts, d)

\* a fact with two dependencies has been handed to its processor
C1_Witness ==
    \E p \in Invokes : Len(facts[trace[p].i].DependsOn) = 2

(* C2 as stated: on a list whose dependency graph has a cycle, every return *)
(* of EvaluateMetric carries the "circular dependency" error.               *)

C2_CycleAlwaysCircularError ==
    (Returned /\ HasCycle(facts)) => ret.err.kind = "circular"

(* C2 amended: on a list whose dependency graph has a cycle, EvaluateMetric  *)
(* never returns success; it returns the "circular dependency" error unless  *)
(* a processor failed first, and then it returns that failure wrapped with   *)
(* the failing fact's id.                                                    *)

C2_CycleNeverSucceeds ==
    (Returned /\ HasCycle(facts)) =>
        \/ ret.err.kind = "circular" /\ trace[Len(trace)].ev # "error"
        \/ /\ ret.err.kind = "process"
           /\ trace[Len(trace)].ev = "error"
           /\ ret.err.id = facts[trace[Len(trace)].i].ID

\* a cyclic list came back with the circular-dependency error after some fact
\* outside the cycle had been processed
C2_Witness ==
    /\ Returned
    /\ HasCycle(facts)
    /\ ret.err.kind = "circular"
    /\ \E k \in 1..Len(facts) : facts[k].Done

(* C3: when a processor returns an error, EvaluateMetric returns an error that *)
(* names that fact's id, the fact is not marked done, and no processor is      *)
(* invoked afterwards in that call.                                            *)

C3_FirstFailureAborts ==
    \A p \in 1..Len(trace) :
        trace[p].ev = "error" =>
            /\ p < Len(trace) => trace[p + 1].ev = "enter"
            /\ p = Len(trace) =>
                /\ Returned
                /\ ret.err.kind = "process"
                /\ ret.err.id = facts[trace[p].i].ID
                /\ ret.val = NilV
                /\ ~facts[trace[p].i].Done

\* a processor failed after another fact had been processed in the same call
C3_Witness ==
    /\ Len(trace) >= 2
    /\ trace[Len(trace)].ev = "error"
    /\ \E q \in 1..Len(trace) : trace[q].ev = "ok" /\ SameCall(q, Len(trace))

(* C4: on success the returned value is the Result of the last fact in       *)
(* declaration order whose Result is non-null: true as 1, false as 0, a      *)
(* numeric string as its number, and any other value unchanged.              *)

C4_FinalResult ==
    Succeeded =>
        \/ (\A k \in 1..Len(facts) : facts[k].Result = NilV) /\ ret.val = NilV
        \/ \E k \in 1..Len(facts) :
            /\ facts[k].Result # NilV
            /\ \A j \in (k + 1)..Len(facts) : facts[j].Result = NilV
            /\ LET v == facts[k].Result
               IN  CASE v.t = "bool" -> ret.val = NumV(IF v.b THEN 1 ELSE 0)
                     [] v.t = "string" /\ ParseFloat(v.s).ok -> ret.val = NumV(ParseFloat(v.s).n)
                     [] OTHER -> ret.val = v

\* the last fact's Result is null and an earlier boolean Result was returned as 1
C4_Witness ==
    /\ Succeeded
    /\ Len(facts) = 2
    /\ facts[2].Result = NilV
    /\ facts[1].Result = BoolV(TRUE)
    /\ ret.val = NumV(1)

(* C5: whenever EvaluateMetric returns without error, the value is a number, *)
(* a boolean, a string or a list, never null.                                *)

C5_ReturnsAValue ==
    Succeeded => ret.val.t \in {"float64", "bool", "string", "list", "bools"}

(* C6: a Done flag never goes back to false; it becomes true only in the step *)
(* right after that fact's processor returned without error; and on a         *)
(* successful return every fact is done.                                      *)

C6_DoneOnceAfterSuccess ==
    [][ /\ \A k \in 1..Len(facts) :
            /\ facts[k].Done => facts'[k].Done
            /\ (~facts[k].Done /\ facts'[k].Done) =>
                /\ pc = "mark"
                /\ k = Cur
                /\ trace[Len(trace)] = Event("ok", k, pass)
        /\ (pc' = "returned" /\ ret'.err.kind = "nil") => \A k \in 1..Len(facts) : facts'[k].Done
      ]_vars

\* every fact of a three-fact list has been marked done
C6_Witness ==
    /\ Succeeded
    /\ Len(facts) = 3
    /\ \A k \in 1..3 : facts[k].Done

(* C7: every Result read by a processor or by the final scan belongs to a  *)
(* fact whose Done flag is true at that moment, and no processor reads the *)
(* Result of its own fact.                                                 *)

C7_ReadOnlyWhenDone ==
    \A r \in reads : r.done /\ r.of # r.reader

\* a processor has read a dependency's Result and the final scan has read one
C7_Witness ==
    /\ \E r \in reads : r.reader # 0
    /\ \E r \in reads : r.reader = 0

(* C8: after a call, successful or failed, the caller's list has the field *)
(* values it had before the call.                                          *)

C8_CallerListUnchanged ==
    Returned => facts = orig

(* C9 as stated: of two facts that are mutually unordered by dependsOn, the *)
(* one declared earlier is processed before the one declared later.         *)

C9_DeclarationOrderAmongUnordered ==
    \A p, q \in Invokes :
        (p < q /\ SameCall(p, q) /\ Unordered(facts, trace[p].i, trace[q].i))
            => trace[p].i < trace[q].i

(* C9 amended: of two mutually unordered facts, the one declared earlier is  *)
(* processed before the one declared later whenever neither it nor any fact  *)
(* it depends on, directly or transitively, names a dependency declared      *)
(* after itself; a fact that waits, itself or through a dependency, for a    *)
(* fact declared later is processed in a later scan pass, after the          *)
(* later-declared facts that were ready before.                              *)

C9_DeclarationOrderWhenDepsPrecede ==
    \A p, q \in Invokes :
        (p < q /\ trace[p].i > trace[q].i /\ SameCall(p, q)
               /\ Unordered(facts, trace[p].i, trace[q].i))
            => /\ WaitsForLater(facts, trace[q].i)
               /\ trace[p].pass < trace[q].pass

\* two ready, mutually unordered facts were processed in one pass in their
\* declaration order, and a fact whose own dependencies are all declared
\* before it was processed in a later pass, after a later-declared fact it is
\* unordered with
C9_Witness ==
    /\ \E p, q \in Invokes :
        /\ p < q /\ SameCall(p, q)
        /\ Unordered(facts, trace[p].i, trace[q].i)
        /\ trace[p].pass = trace[q].pass
    /\ \E p, q \in Invokes :
        /\ p < q /\ SameCall(p, q)
        /\ Unordered(facts, trace[p].i, trace[q].i)
        /\ trace[p].i > trace[q].i
        /\ \A m \in 1..Len(facts) : DependsDirect(facts, trace[q].i, m) => m < trace[q].i

(* C10: EvaluateMetric returns success only if every fact of the list is   *)
(* structurally valid.                                                     *)

StructurallyValid(f) ==
    /\ ToLower(f.Type) \in {"extract", "validate", "aggregate"}
    /\ ToLower(f.Type) = "extract" => ToLower(f.Source) \in {"github", "api", "jsonapi", "prometheus"}
    /\ ToLower(f.Type) \in {"validate", "aggregate"} => Len(f.DependsOn) > 0
    /\ ToLower(f.Type) = "validate" => ToLower(f.Rule) \in {"regex_match", "deps_match", "unique"}
    /\ (ToLower(f.Type) = "validate" /\ ToLower(f.Rule) = "regex_match") => f.Pattern # ""
    /\ ToLower(f.Type) = "aggregate" => ToLower(f.Method) \in {"count", "sum", "and", "or"}

C10_SuccessOnlyIfValid ==
    Succeeded => \A k \in 1..Len(facts) : StructurallyValid(facts[k])

(* C11 as stated: an aggregate fact without a usable input stores true for  *)
(* and, false for or and 0.0 for sum, and count over zero dependency        *)
(* results stores 0.0.                                                      *)

C11_EmptyReductionAndCountOfZero ==
    \A p \in Returns :
        LET f == facts[trace[p].i]
            deps == getDependencyResults(f, facts)
            stored(v) == trace[p].ev = "ok" /\ f.Result = v
        IN  ToLower(f.Type) = "aggregate" =>
                /\ (ToLower(f.Method) = "and" /\ UsableBools(deps) = {}) => stored(BoolV(TRUE))
                /\ (ToLower(f.Method) = "or" /\ UsableBools(deps) = {}) => stored(BoolV(FALSE))
                /\ (ToLower(f.Method) = "sum" /\ UsableFloats(deps) = {}) => stored(NumV(0))
                /\ (ToLower(f.Method) = "count" /\ Len(deps) = 0) => stored(NumV(0))

(* C11 amended: an aggregate fact with at least one dependency result stores *)
(* true for and, false for or and 0.0 for sum when no dependency result      *)
(* coerces to a usable input, and count stores the number of dependency      *)
(* results; with no dependency result at all the processor fails for every   *)
(* method and stores nothing.                                                *)

C11_EmptyReductionOverDependencies ==
    \A p \in Returns :
        LET f == facts[trace[p].i]
            deps == getDependencyResults(f, facts)
            stored(v) == trace[p].ev = "ok" /\ f.Result = v
        IN  (ToLower(f.Type) = "aggregate" /\ ToLower(f.Method) \in {"and", "or", "sum", "count"}) =>
                IF Len(deps) = 0
                THEN trace[p].ev = "error" /\ f.Result = NilV /\ ~f.Done
                ELSE /\ (ToLower(f.Method) = "and" /\ UsableBools(deps) = {}) => stored(BoolV(TRUE))
                     /\ (ToLower(f.Method) = "or" /\ UsableBools(deps) = {}) => stored(BoolV(FALSE))
                     /\ (ToLower(f.Method) = "sum" /\ UsableFloats(deps) = {}) => stored(NumV(0))
                     /\ ToLower(f.Method) = "count" => stored(NumV(Len(deps)))

\* and, or and sum have each reduced two dependency results without a usable
\* one, and a count without dependencies has failed
C11_Witness ==
    /\ \A m \in {"and", "or", "sum"} :
         \E p \in Returns :
            /\ ToLower(facts[trace[p].i].Method) = m
            /\ trace[p].ev = "ok"
            /\ Len(facts[trace[p].i].DependsOn) = 2
            /\ UsableBools(getDependencyResults(facts[trace[p].i], facts)) = {}
            /\ UsableFloats(getDependencyResults(facts[trace[p].i], facts)) = {}
    /\ \E p \in Returns :
            /\ ToLower(facts[trace[p].i].Method) = "count"
            /\ trace[p].ev = "error"
            /\ Len(facts[trace[p].i].DependsOn) = 0

(* C12: for a github extract fact whose rule is not search, a missing file *)
(* at <repoRoot>/<repo>/<filePath> is never an error: the extractor returns *)
(* empty bytes, the fact is marked done, and the evaluation of the          *)
(* remaining facts continues.                                               *)

MissingFileExtracts ==
    {e \in extracts :
        /\ ToLower(facts[e.i].Source) = "github"
        /\ facts[e.i].Rule # "search"
        /\ facts[e.i].FilePath \notin {<<>>, Dot}
        /\ ReadFile(facts[e.i].Repo, facts[e.i].FilePath).st = "notexist"}

C12_MissingFileNeverAnError ==
    \A e \in MissingFileExtracts :
        /\ e.err = "" /\ Len(e.data.bytes) = 0
        /\ trace[e.at].ev = "ok"
        /\ facts[e.i].Done \/ (pc = "mark" /\ Cur = e.i)
        /\ \A p \in 1..Len(trace) : ~(trace[p].ev = "error" /\ trace[p].i = e.i)

(* C13 as stated: for every well-formed JSON input, the JSON value null     *)
(* included, and every valid query, the jsonpath rule returns the single     *)
(* produced value unwrapped when the query produces exactly one value, and   *)
(* the list of the produced values otherwise.                                *)

\* the argument is a well-formed JSON document and a query that parses
WellFormed ==
    /\ arg.kind = "json"
    /\ JSONUnmarshal(arg.data.bytes).ok
    /\ arg.jsonPath.t = "string"
    /\ arg.jsonPath.s # <<>>
    /\ RunQuery(arg.jsonPath.s, NilV).st # "parseerror"

\* what the query produces on the document
Produced == RunQuery(arg.jsonPath.s, JSONUnmarshal(arg.data.bytes).v)

Unwrapped(out) == IF Len(out) = 1 THEN out[1] ELSE ListV(out)

Excluded == {".git", ".bin", ".exe"}

\* a readable file of the repository, neither excluded itself nor below an
\* excluded directory, contains the text
FoundOutsideExcluded(repo, text) ==
    \E f \in Files :
        /\ f.repo = repo /\ f.readable
        /\ f.ext \notin Excluded /\ f.under \notin Excluded
        /\ Contains(f.content, text)

C14_SearchSkipsExcludedEntries ==
    \A e \in extracts :
        (/\ ToLower(facts[e.i].Source) = "github"
         /\ facts[e.i].Rule = "search"
         /\ facts[e.i].Repo \in Repos)
            => /\ e.err = ""
               /\ e.data.bytes = MarshalBool(FoundOutsideExcluded(facts[e.i].Repo, facts[e.i].SearchString))

(* C15: for an api or jsonapi extract fact with dependencies, if any        *)
(* dependency result is an empty list then no HTTP request is issued and the *)
(* extractor returns the canned response: {"recipients": []} when the        *)
(* template URI contains "recipients" or ":alert_id", an empty JSON array    *)
(* otherwise.                                                                *)

HasEmptyList(deps) == \E k \in 1..Len(deps) : deps[k].t = "list" /\ Len(deps[k].l) = 0

C15_EmptyListSkipsRequest ==
    \A e \in extracts :
        (/\ ToLower(facts[e.i].Source) \in {"api", "jsonapi"}
         /\ Len(facts[e.i].DependsOn) > 0
         /\ HasEmptyList(getDependencyResults(facts[e.i], facts)))
            => /\ ~e.request
               /\ e.err = ""
               /\ e.data = IF \/ Contains(facts[e.i].URI, Recipients)
                               \/ Contains(facts[e.i].URI, AlertId)
                            THEN Bytes(EmptyRecipients) ELSE Bytes(EmptyArray)

\* an API fact whose first dependency result is text and whose second is an
\* empty list got the canned object, and no request was sent
C15_Witness ==
    \E e \in extracts :
        /\ ToLower(facts[e.i].Source) \in {"api", "jsonapi"}
        /\ Len(facts[e.i].DependsOn) = 2
        /\ getDependencyResults(facts[e.i], facts)[1].t = "string"
        /\ getDependencyResults(facts[e.i], facts)[2] = ListV(<<>>)
        /\ ~e.request
        /\ e.data = Bytes(EmptyRecipients)

(* C16: when the engine has no monitoring client configured, processing a  *)
(* prometheus extract fact fails with the error "prometheus service not     *)
(* configured", and EvaluateMetric returns that failure as an error value    *)
(* wrapped with the fact's id.                                               *)

\* the first fact the scan hands to a processor is a prometheus extract
PrometheusFirst ==
    /\ Len(facts) > 0
    /\ ToLower(facts[1].Type) = "extract"
    /\ ToLower(facts[1].Source) = "prometheus"
    /\ Len(facts[1].DependsOn) = 0

C16_UnconfiguredClientIsAnError ==
    (ClientPanics(env) /\ calls > 0 /\ PrometheusFirst) =>
        /\ pc # "panicked"
        /\ Returned =>
              /\ ret.err.kind = "process"
              /\ ret.err.id = facts[1].ID
              /\ ret.val = NilV

(* C17: if the caller cancels the ambient deadline or cancellation signal   *)
(* while an evaluation is running, every in-flight HTTP or monitoring        *)
(* request is aborted and EvaluateMetric returns a cancellation error        *)
(* without processing further facts.                                         *)

Cancels == {p \in 1..Len(trace) : trace[p].ev = "cancel"}

C17_CancelStopsEvaluation ==
    \A p \in Cancels :
        /\ \A q \in (p + 1)..Len(trace) :
              SameCall(p, q) => trace[q].ev \notin {"invoke", "ok"}
        /\ (Returned /\ SameCall(p, Len(trace))) => ret.err.kind = "cancelled"

(* C18: to-float and to-boolean are total: for every input value they      *)
(* return either a produced value or the distinct absent signal and never    *)
(* fail; to-boolean maps a boolean to itself, every number x (in every       *)
(* numeric representation to-float accepts) to (x != 0), every spelling of   *)
(* "true"/"false" in any letter case to that boolean, and anything else to   *)
(* absent.                                                                   *)

LowerChar(c) ==
    CASE c = "T" -> "t"
      [] c = "R" -> "r"
      [] c = "U" -> "u"
      [] c = "E" -> "e"
      [] c = "F" -> "f"
      [] c = "A" -> "a"
      [] c = "L" -> "l"
      [] c = "S" -> "s"
      [] OTHER -> c

Lower(s) == [k \in 1..Len(s) |-> LowerChar(s[k])]

SomeBool(x) == [ok |-> TRUE, n |-> 0, b |-> x]

\* the numeric representations to-float accepts
NumericTypes == {"float64", "float32", "int", "int64"}

ToBoolean(v) ==
    CASE v.t = "bool" -> SomeBool(v.b)
      [] v.t \in NumericTypes -> SomeBool(v.n # 0)
      [] v.t = "string" /\ Lower(v.s) = True -> SomeBool(TRUE)
      [] v.t = "string" /\ Lower(v.s) = False -> SomeBool(FALSE)
      [] OTHER -> Absent

C18_CoercionsTotalAndToBoolean ==
    /\ applied \in {"convertToFloat64", "convertToBool"} =>
          /\ result.err = ""
          /\ result.p.ok \in BOOLEAN
    /\ applied = "convertToFloat64" =>
          (arg.v.t \in NumericTypes => result.p = [ok |-> TRUE, n |-> arg.v.n, b |-> FALSE])
    /\ applied = "convertToBool" => result.p = ToBoolean(arg.v)

(* C19: in Process, a failure to load the facts of, evaluate, or submit one *)
(* metric never prevents the remaining metrics of the component from being   *)
(* attempted (each associated metric is attempted exactly once, in order),   *)
(* and Process returns an error only for a setup failure (component lookup,  *)
(* metric-directory setup, repository clone, missing metric directory),      *)
(* never because of a metric failure.                                        *)

SetupFailures ==
    {"failed to get component", "failed to setup metric directory", "failed to clone repository",
     "metric directory not found"}

\* the run has ended: Process returned, or a panic took the process down
Ended == proc.pc = "returned" \/ (proc.pc = "evaluate" /\ pc = "panicked")

C19_MetricFailuresNeverStopProcess ==
    /\ proc.attempted = [k \in 1..Len(proc.attempted) |-> k]
    /\ Len(proc.attempted) <= Len(proc.metrics)
    /\ (Ended /\ proc.mi >= 1) => Len(proc.attempted) = Len(proc.metrics)
    /\ (proc.pc = "returned" /\ proc.err # "") =>
          /\ proc.err \in SetupFailures
          /\ proc.attempted = <<>>

(* C20: evaluations running concurrently for different metrics or          *)
(* components share no mutable state: each call has its own fact list, its   *)
(* own extractor instances and its own working-tree path prefix, and the     *)
(* working tree is not modified while any evaluation reads it, so each       *)
(* concurrent evaluation returns the same outcome it returns when run alone. *)

\* the facts of the metric whose evaluation is entry k of proc.results
EvaluatedFacts(k) == proc.metrics[proc.results[k].mi].facts

\* an evaluation of these facts alone has one outcome: nothing in it depends
\* on what a remote service answers
ReadsTreeOnly(fs) == \A k \in 1..Len(fs) : fs[k].Type = "extract" /\ fs[k].Source = "github"

\* two evaluations of the same facts for the same component return the same
SameOutcomeAsAlone ==
    \A i, j \in 1..Len(proc.results) :
        (/\ EvaluatedFacts(i) = EvaluatedFacts(j)
         /\ ReadsTreeOnly(EvaluatedFacts(i)))
        => proc.results[i].ret = proc.results[j].ret

C20_ConcurrentEvaluationsIsolated ==
    /\ []SameOutcomeAsAlone
    /\ [][(proc.pc = "evaluate" /\ Running) => tree' = tree]_vars

(* C21: placeholder interpolation is idempotent: for every fact f and every *)
(* component name N, replacePlaceholders(replacePlaceholders(f, N), N)       *)
(* equals replacePlaceholders(f, N) in every field.                          *)

Twice == arg.kind = "fact" /\ applied = "replacePlaceholders twice"

WellPlaced(s) == \A k \in 1..Len(s) : s[k] = "$" => HasPrefixAt(s, Token, k)

InterpolatedTexts(f) ==
    {f.Repo, f.FilePath, f.URI, f.PrometheusQuery} \cup (IF f.JSONPath.t = "string" THEN {f.JSONPath.s} ELSE {})

NoDollar(s) == \A k \in 1..Len(s) : s[k] # "$"

PlainExtracts == {e \in extracts : facts[e.i].Rule = "" /\ e.err = ""}

\* the facts whose extractor returned zero bytes
ZeroByteFacts == {e.i : e \in {x \in PlainExtracts : Len(x.data.bytes) = 0}}

\* the facts the final-result selection may stop at
Selectable == {k \in 1..Len(facts) : facts[k].Result # NilV /\ k \notin ZeroByteFacts}

C22_ZeroBytesStoredAsNull ==
    /\ \A e \in PlainExtracts :
          facts[e.i].Result = IF Len(e.data.bytes) = 0 THEN NilV ELSE StrV(e.data.bytes)
    /\ Succeeded =>
          ret.val = IF Selectable = {} THEN NilV
                    ELSE Converted(facts[CHOOSE k \in Selectable : \A j \in Selectable : j <= k].Result)

(* C23: a fact whose dependsOn contains an id that is not the id of any fact *)
(* in the list is never handed to a processor, and EvaluateMetric on a list  *)
(* containing such a fact never returns success (it returns the              *)
(* unresolved-dependencies error or an earlier processor's error).           *)

\* the facts that depend on an id no fact of the list has
Dangling ==
    {k \in 1..Len(facts) :
        \E d \in 1..Len(facts[k].DependsOn) : facts[k].DependsOn[d] \notin FactIds(facts)}

C23_UnknownDependencyNeverProcessed ==
    \A k \in Dangling :
        /\ \A p \in 1..Len(trace) : trace[p].i # k
        /\ ~facts[k].Done
        /\ Returned =>
              \/ ret.err.kind = "circular" /\ trace[Len(trace)].ev # "error"
              \/ /\ ret.err.kind = "process"
                 /\ trace[Len(trace)].ev = "error"
                 /\ trace[Len(trace)].i # k
                 /\ ret.err.id = facts[trace[Len(trace)].i].ID

(* C23 witness: a list with a fact that depends on an unknown id came back    *)
(* with the unresolved-dependencies error after its other facts had been     *)
(* processed and marked done.                                                *)
C23_Witness ==
    /\ Returned
    /\ Dangling # {}
    /\ ret.err.kind = "circular"
    /\ \E j \in 1..Len(facts) : j \notin Dangling /\ facts[j].Done
    /\ \A j \in 1..Len(facts) : j \notin Dangling => facts[j].Done

(* C24: in Process the steps are ordered clone -> evaluate -> submit: no    *)
(* EvaluateMetric call occurs before every required repository clone has     *)
(* succeeded, and PutMetric is called for a metric only after                *)
(* EvaluateMetric returned success for that same metric in the same run,     *)
(* with the stringification of exactly that returned value.                  *)

\* EvaluateMetric has been called in this run
Evaluating == calls > 0 \/ proc.pc = "evaluate"

C24_CloneEvaluateSubmit ==
    /\ Evaluating => proc.cloned = proc.repos /\ Len(proc.repos) >= 1
    /\ \A k \in 1..Len(proc.submitted) :
          \E j \in 1..Len(proc.results) :
              /\ proc.results[j].mi = proc.submitted[k].mi
              /\ proc.results[j].ret.err = NoErr
              /\ proc.submitted[k].value = Sprint(proc.results[j].ret.val)
              /\ \A i \in 1..Len(proc.results) : proc.results[i].mi = proc.submitted[k].mi => i = j
    /\ \A j, k \in 1..Len(proc.submitted) :
          proc.submitted[j].mi = proc.submitted[k].mi => j = k

(* C24 witness: a run that cloned the component and the catalog repository,  *)
(* evaluated two metrics, one of which failed, and submitted the value 42 of *)
(* the other.                                                                *)
C24_Witness ==
    /\ proc.pc = "returned"
    /\ proc.err = ""
    /\ Len(proc.cloned) = 2
    /\ calls = 2
    /\ \E j \in 1..Len(proc.results) : proc.results[j].ret.err # NoErr
    /\ \E k \in 1..Len(proc.submitted) :
          proc.submitted[k].ok /\ proc.submitted[k].value = <<"4", "2">>

(* C25: assuming every processor call returns, EvaluateMetric terminates   *)
(* for every finite fact list after at most n scan passes (n = number of     *)
(* facts): every pass that does not end the evaluation marks at least one    *)
(* more fact done; and when every dependency is declared before its          *)
(* dependents a single scan pass completes the evaluation.                   *)

\* every dependency names a fact declared earlier in the list
DeclaredBefore(fs) ==
    \A k \in 1..Len(fs) : \A d \in 1..Len(fs[k].DependsOn) :
        \E j \in 1..(k - 1) : fs[j].ID = fs[k].DependsOn[d]

DoneCount == Cardinality({k \in 1..Len(facts) : facts[k].Done})

PassesBounded ==
    /\ pass <= Len(facts)
    /\ Running => DoneCount >= pass - 1
    /\ DeclaredBefore(facts) => pass <= 1
    /\ (DeclaredBefore(facts) /\ Returned) => ret.err.kind # "circular"

C25_TerminatesWithinNPasses ==
    /\ []PassesBounded
    /\ Running ~> (pc = "returned")

(* C25 witness: a list of four facts in which a fact depends on a later one  *)
(* was evaluated to the end in two passes.                                   *)
C25_Witness ==
    /\ Succeeded
    /\ Len(facts) = 4
    /\ ~DeclaredBefore(facts)
    /\ pass = 2
    /\ DoneCount = 4

(* C26: whenever the driver invokes the processor of fact f, the            *)
(* dependency-result collection for f contains exactly one entry per element *)
(* of f.dependsOn, in dependsOn order, null results included; hence an       *)
(* aggregate count always stores the length of dependsOn, a validate or      *)
(* aggregate fails for missing dependencies exactly when dependsOn is empty, *)
(* and the API extractor's branch "dependencies declared but no result       *)
(* available" is not reached from EvaluateMetric.                            *)

\* the processor of the fact under the pointer is running
Invoked == pc = "proc"

MissingDependencies == {"validation requires dependencies", "aggregation requires dependencies"}

\* the collection has one entry per element of dependsOn, that fact's Result
OnePerDependency(f, fs) ==
    LET deps == getDependencyResults(f, fs)
    IN  /\ Len(deps) = Len(f.DependsOn)
        /\ \A k \in 1..Len(f.DependsOn) :
              /\ f.DependsOn[k] \in FactIds(fs)
              /\ deps[k] = fs[FactMap(fs, f.DependsOn[k])].Result

C26_DependencyResultsOnePerDependsOn ==
    /\ Invoked =>
         LET f == facts[Cur]
         IN  /\ OnePerDependency(f, facts)
             /\ ToLower(f.Type) \in {"validate", "aggregate"} =>
                   \A out \in Outcomes :
                       (processFact(f, facts, out).err \in MissingDependencies)
                           <=> (Len(f.DependsOn) = 0)
             /\ (ToLower(f.Type) = "extract" /\ ToLower(f.Source) \in {"jsonapi", "api"}
                     /\ Len(f.DependsOn) # 0) =>
                   Len(getDependencyResults(f, facts)) # 0
    /\ \A p \in Returns :
         LET f == facts[trace[p].i]
         IN  /\ (trace[p].ev = "ok" /\ ToLower(f.Type) = "aggregate"
                     /\ ToLower(f.Method) = "count") =>
                   f.Result = NumV(Len(f.DependsOn))
             /\ (trace[p].ev = "error" /\ p = Len(trace)
                     /\ ret.err.cause \in MissingDependencies) =>
                   Len(f.DependsOn) = 0
    /\ \A x \in extracts :
         (ToLower(facts[x.i].Source) \in {"jsonapi", "api"} /\ Len(facts[x.i].DependsOn) # 0) =>
             Len(getDependencyResults(facts[x.i], facts)) = Len(facts[x.i].DependsOn)

(* C26 witness: a count over two dependencies, one of them with a null       *)
(* result, has stored 2.                                                     *)
C26_Witness ==
    \E p \in Returns :
        LET f == facts[trace[p].i]
        IN  /\ trace[p].ev = "ok"
            /\ ToLower(f.Type) = "aggregate"
            /\ ToLower(f.Method) = "count"
            /\ Len(f.DependsOn) = 2
            /\ \E k \in 1..2 : facts[FactMap(facts, f.DependsOn[k])].Result = NilV
            /\ f.Result = NumV(2)

(* C27: the outcome of GetComponent(name) depends only on the Catalog's      *)
(* response for that name, not on earlier calls in the same process: when    *)
(* the response carries no component (null or absent componentByReference)   *)
(* GetComponent returns "component not found" even if an earlier call found  *)
(* a component, and the id, type and metric associations of a previously     *)
(* looked-up component are never returned for a different name.              *)

\* the GetComponent calls of this run of ProcessAll, in order
Lookups ==
    LET done == [j \in 1..Len(all.finished) |->
                    [name |-> all.finished[j].component, lookup |-> all.finished[j].lookup]]
    IN  IF proc.lookup = NoLookup THEN done
        ELSE Append(done, [name |-> proc.component, lookup |-> proc.lookup])

\* the call decoded a document of the Catalog
Answered(l) == l.lookup.response.kind = "data"

\* what the response alone determines: the decoding into a zero value
FromResponse(l) == getComponent(l.name, l.lookup.response, NoComponent)

C27_GetComponentDependsOnResponseOnly ==
    \A j \in 1..Len(Lookups) :
        LET l == Lookups[j]
        IN  Answered(l) =>
                /\ l.lookup.err = FromResponse(l).err
                /\ l.lookup.component = FromResponse(l).component
                /\ l.lookup.response.ref # "object" => l.lookup.err = "component not found"
                /\ \A i \in 1..(j - 1) :
                     (Lookups[i].name # l.name /\ Lookups[i].lookup.err = "" /\ l.lookup.err = "") =>
                         l.lookup.component.ID # Lookups[i].lookup.component.ID

(* C30: ProcessAll processes the components strictly in list order and      *)
(* stops at the first component whose Process returns an error, returning    *)
(* that error; no later component is looked up, cloned, evaluated or         *)
(* submitted, and what was submitted for earlier components is not rolled    *)
(* back.                                                                     *)

\* the components are started in list order, each after the one before it
\* returned without an error
InListOrder ==
    /\ all.started = [j \in 1..Len(all.started) |-> j]
    /\ Len(all.started) <= Len(all.componentList)
    /\ Len(all.finished) = IF all.pc = "process" THEN Len(all.started) - 1 ELSE Len(all.started)
    /\ \A j \in 1..Len(all.finished) : all.finished[j].component = all.componentList[j]
    /\ all.pc = "process" => proc.component = all.componentList[Len(all.started)]
    /\ all.pc # "process" => proc = NoProcess

\* an error of Process is the last thing that happens, and it is what
\* ProcessAll returns; without one ProcessAll returns nil after the whole list
StopsAtFirstError ==
    /\ \A j \in 1..Len(all.finished) :
         all.finished[j].err # "" =>
             /\ j = Len(all.finished)
             /\ Len(all.started) = j
             /\ all.pc = "returned"
             /\ all.err = Err("failed to process component", all.componentList[j],
                              all.finished[j].err)
    /\ (all.pc = "returned" /\ ~all.allComponents) =>
         IF all.err = NoErr
         THEN /\ Len(all.finished) = Len(all.componentList)
              /\ \A j \in 1..Len(all.finished) : all.finished[j].err = ""
         ELSE all.finished[Len(all.finished)].err # ""

\* nothing is done once ProcessAll has returned, and what the finished
\* components submitted stays as it was
KeepsSubmissions ==
    /\ all.pc # "returned"
    /\ Len(all'.finished) >= Len(all.finished)
    /\ \A j \in 1..Len(all.finished) : all'.finished[j] = all.finished[j]
    /\ (all.pc = "process" /\ all'.pc # "process") =>
         all'.finished[Len(all'.finished)].submitted = proc.submitted

C30_ProcessAllStopsAtFirstError ==
    /\ [](InListOrder /\ StopsAtFirstError)
    /\ [][KeepsSubmissions]_vars

(* C30 witness: the first component had a metric submitted, the second       *)
(* failed, and ProcessAll returned the second's error with the first's       *)
(* submission still recorded.                                                *)
C30_Witness ==
    /\ all.pc = "returned"
    /\ Len(all.componentList) = 2
    /\ Len(all.finished) = 2
    /\ all.finished[1].err = ""
    /\ Len(all.finished[1].submitted) = 1
    /\ all.finished[2].err # ""
    /\ all.err.id = all.componentList[2]

(* C28: for a fact list that contains no prometheus fact, the outcome of    *)
(* EvaluateMetric is independent of whether the monitoring back-end is       *)
(* configured: it returns the same value or error in both cases and never    *)
(* aborts the process instead of returning.                                  *)

NoPrometheusFact(fs) == \A k \in 1..Len(fs) : ToLower(fs[k].Source) # "prometheus"

\* a call starts
Entering == pc \in {"idle", "returned"} /\ calls' = calls + 1

\* the call goes on as it does with the back-end configured
EntersAsConfigured == pc' = IF Len(facts) = 0 THEN "returned" ELSE "scan"

C28_NoPrometheusFactNoBackendNeeded ==
    /\ [](NoPrometheusFact(orig) => pc # "panicked")
    /\ [][(Entering /\ NoPrometheusFact(orig)) => EntersAsConfigured]_vars

(* C29: for an api/jsonapi extract fact with an empty dependsOn, the          *)
(* extractor either issues exactly one GET request to the fact's URI or      *)
(* returns an error; it never returns the canned empty response, which is    *)
(* produced only for facts that have dependencies.                           *)

\* the extractions of API facts without dependencies
IndependentAPIExtracts ==
    {x \in extracts : /\ ToLower(facts[x.i].Source) \in {"jsonapi", "api"}
                      /\ Len(facts[x.i].DependsOn) = 0}

\* the bytes the extractor returns without a request
CannedResponses == {Bytes(EmptyArray), Bytes(EmptyRecipients)}

C29_NoCannedResponseWithoutDependencies ==
    \A x \in IndependentAPIExtracts :
        /\ (x.request /\ x.uri = facts[x.i].URI) \/ x.err # ""
        /\ ~(~x.request /\ x.err = "" /\ x.data \in CannedResponses)

====
